---- MODULE Spec2Model ----
(***************************************************************************)
(* Perception-to-action decision loop of the Minecraft agent.              *)
(*                                                                         *)
(* Modelled programs:                                                      *)
(*   - AgentExecutor (agent/agent_executor.py) with its NavigationPlanner  *)
(*     and MinecraftController (control/control_system.py) and its         *)
(*     VisionSystem (vision/vision_system.py);                             *)
(*   - the standalone mission script minecraft_simple_chat.py;             *)
(*   - the agents RuleBasedAgent (ai/agent.py), LLMMinecraftAgent          *)
(*     (ai/llm_agent.py), LiveLLMAgent and VisionLLMAgent (test scripts).  *)
(*                                                                         *)
(* Coverage fractions are integers in units of 1/1000 (0.005 is 5, 0.08 is *)
(* 80, 0.15 is 150); every comparison of the code is kept strict or        *)
(* non-strict exactly as written.                                          *)
(*                                                                         *)
(* Specifications:                                                         *)
(*   Spec        a new executor (or script run) and the first goal given   *)
(*               to it, any coverage sequence, captures and input          *)
(*               dispatch failing at most MaxFaults times;                 *)
(*   SpecPolicy  the planner's pure functions applied to a grid of inputs; *)
(*   SpecSearch  a water find goal whose action at one early step is       *)
(*               written down for comparison one cycle later;              *)
(*   SpecReplay  up to MaxEpisodes find episodes of one executor, each fed *)
(*               the same sequence of vision results;                      *)
(*   SpecInterrupt  a find goal of the executor during which Ctrl-C may be *)
(*               pressed once;                                             *)
(*   SpecDecide  up to MaxCycles observe-decide-act cycles of the          *)
(*               model-driven agent, the decision service answering with   *)
(*               any response of up to MaxLines lines or failing;          *)
(*   SpecLaunch  a script started from the command line with or without    *)
(*               --ready, and the mission it then runs;                    *)
(*   SpecVision  FeatureDetector._detect_feature applied to every frame of *)
(*               FrameHeight x FrameWidth pixels over a small palette;     *)
(*   SpecSweep   the first find goal of a new executor fed low coverages,  *)
(*               the actions of its current run of SEARCH ticks recorded;  *)
(*   SpecHistory act called on one of the three agents that keep a history *)
(*               of actions, HistoryExtra times more than the history      *)
(*               holds;                                                    *)
(*   SpecShelter RuleBasedAgent.decide called on a new agent until the     *)
(*               wood gathered reaches MaxWood.                            *)
(***************************************************************************)
EXTENDS Integers, Sequences, FiniteSets, TLC

VARIABLES
    pc,                 \* where the program is: idle, try, find, explore, navigate, mission
    goal,               \* the goal object last handed to execute_goal
    current_goal,       \* AgentExecutor.current_goal
    goal_status,        \* goal.status of that goal object
    execution_history,  \* AgentExecutor.execution_history
    max_coverage_seen,  \* AgentExecutor.max_coverage_seen
    current_phase,      \* NavigationPlanner.current_phase
    step_count,         \* NavigationPlanner.step_count
    max_steps,          \* local of the running loop
    step,               \* loop index of the next iteration
    steps_taken,        \* local steps_taken of the running loop
    target_type,        \* parameter of execute_find_mission
    max_coverage,       \* local of execute_find_mission
    mission_verdict,    \* what execute_find_mission reported last
    tick,               \* what the latest loop iteration did (observation)
    episodes,           \* number of episodes started (observation)
    faults,             \* number of environment failures so far (environment)
    mark,               \* one early SEARCH action written down (observation)
    feed,               \* the vision results replayed to every episode (environment)
    trace,              \* phases and actions of the current episode (observation)
    prev_trace,         \* phases and actions of the episode before it (observation)
    held,               \* keys left down at the input layer (followed in SpecInterrupt)
    report,             \* VisionResult of the latest FeatureDetector._detect_feature call
    img,                \* the image that call was handed
    action_history,     \* LLMMinecraftAgent.action_history
    decision,           \* what the latest cycle of a model-driven agent decided and did
    launch,             \* the script started from the command line and how far it got
    rule_agent,         \* the attributes of a RuleBasedAgent
    last_actions,       \* VisionLLMAgent.last_actions (action names)
    clock               \* time.time(), in ticks: the timestamp of the next Action

vars == << pc, goal, current_goal, goal_status, execution_history, max_coverage_seen,
           current_phase, step_count, max_steps, step, steps_taken,
           target_type, max_coverage, mission_verdict, tick, episodes, faults,
           mark, feed, trace, prev_trace, held, report, img, action_history, decision,
           launch, rule_agent, last_actions, clock >>

-----------------------------------------------------------------------------
(* Bounds of the model *)

MaxFaults == 1
MaxEpisodes == 2
FeedLen == 3
SampleWindow == 4
FrameWidth == 3
FrameHeight == 3
MaxCycles == 2
MaxLines == 2
HistoryExtra == 2

(* Program constants, in units of 1/1000 where they are coverages *)

SearchCoverage == 5
SearchMaxSeen == 10
SearchBudget == 80
HighThreshold == 80
FoundThreshold == 150
LocatedThreshold == 10
RegionThreshold == 10
TreeVisible == 10
SearchCycle == 24
NavigateCycle == 8
TreeCycle == 12
ExploreCycle == 16
max_steps_per_goal == 200
ExploreCap == 100
SecondsPerStep == 2
RuleHistoryCap == 100
LLMHistoryCap == 50
LastActionsCap == 10

-----------------------------------------------------------------------------
(* Values *)

NoGoal == [goal_type |-> "none", target |-> "none", timeout_seconds |-> 0]

MOVE_FORWARD == "w"
MOVE_BACKWARD == "s"
MOVE_LEFT == "a"
MOVE_RIGHT == "d"
LOOK_LEFT == "j"
LOOK_RIGHT == "l"
LOOK_UP == "i"
LOOK_DOWN == "k"
WAIT == "wait"

ActionType == { MOVE_FORWARD, MOVE_BACKWARD, MOVE_LEFT, MOVE_RIGHT,
                LOOK_LEFT, LOOK_RIGHT, LOOK_UP, LOOK_DOWN, WAIT }

Phases == { "SEARCH", "NAVIGATE", "APPROACH" }

TargetType == { "water", "tree", "animal" }

(* Timeouts handed to goals (step budgets 0, 3, 50, 100 and the cap) *)
Timeouts == { 0, 7, 100, 200, 402 }

(* Step budgets handed to execute_find_mission; 100 is its default. *)
MissionSteps == { 3, 100 }

(* Vision results the detector can report: total coverage and the coverage *)
(* of the three equal-width columns (3 * total = left + center + right).   *)
VR(t, l, c, r) == [total_coverage |-> t, left |-> l, center |-> c, right |-> r]

VisionResults ==
    { VR(1, 0, 3, 0),
      VR(10, 0, 0, 30),
      VR(20, 24, 24, 12),
      VR(90, 0, 270, 0),
      VR(160, 160, 160, 160) }

(* What analyze_for_water / analyze_for_trees return when the capture failed *)
None == VR(-1, -1, -1, -1)

RaisePoints == { "none", "keyDown", "keyUp" }

NoTick == [loop |-> "none", step |-> -1, capture |-> "none", coverage |-> 0,
           phase |-> "none", phase_max |-> 0, action |-> "none",
           focus |-> "none", sent |-> "none", ok |-> FALSE]

NoMark == [step |-> -1, action |-> "none"]

NoReport == [feature |-> "none", total_coverage |-> 0, left |-> 0, center |-> 0,
             right |-> 0, top |-> 0, middle |-> 0, bottom |-> 0]

NoImage == << >>

NoDecision == [agent |-> "none", service |-> "none", response |-> << >>,
               action_type |-> "none", propagated |-> FALSE, key |-> "none"]

NoLaunch == [script |-> "none", ready |-> "none", stage |-> "none", exit_code |-> -1,
             cycles |-> 0, capture |-> FALSE, focus |-> FALSE, input |-> FALSE]

(* RuleBasedAgent.__init__; the gathered amounts are in tenths *)
NewRuleBasedAgent ==
    [building_phase |-> "exploring", gathering_target |-> "None",
     wood_gathered |-> 0, dirt_gathered |-> 0, mining_attempts |-> 0,
     last_wood_count |-> 0, action_history |-> << >>]

(* Max as it would be if it returned its second argument *)
Max_latest(a, b) == b

Max(a, b) == IF a >= b THEN a ELSE b
Min(a, b) == IF a <= b THEN a ELSE b
Max3(a, b, c) == Max(a, Max(b, c))
Last(s) == s[Len(s)]

(* ai.agent.Action: its type and the time it was made *)
Action(action_type, timestamp) == [action_type |-> action_type, timestamp |-> timestamp]

(* keep_last as it would be if the oldest entries were kept *)
keep_first(history, n) ==
    IF Len(history) > n THEN SubSeq(history, 1, n) ELSE history

(* if len(history) > n: history = history[-n:] *)
keep_last(history, n) ==
    IF Len(history) > n THEN SubSeq(history, Len(history) - n + 1, Len(history))
    ELSE history

-----
(* NavigationPlanner *)

(* determine_phase as it would be if it forgot the maximum seen so far *)
determine_phase_no_memory(coverage, step_num, max_seen) ==
    IF coverage < SearchCoverage /\ coverage < SearchMaxSeen /\ step_num < SearchBudget
    THEN "SEARCH"
    ELSE IF coverage > HighThreshold
         THEN "APPROACH"
         ELSE "NAVIGATE"

(* determine_phase as it would be with an inclusive high threshold *)
determine_phase_inclusive(coverage, step_num, max_seen) ==
    IF coverage < SearchCoverage /\ max_seen < SearchMaxSeen /\ step_num < SearchBudget
    THEN "SEARCH"
    ELSE IF coverage >= HighThreshold \/ max_seen >= HighThreshold
         THEN "APPROACH"
         ELSE "NAVIGATE"

(* determine_phase as it would be with an inclusive low threshold *)
determine_phase_search_inclusive(coverage, step_num, max_seen) ==
    IF coverage <= SearchCoverage /\ max_seen < SearchMaxSeen /\ step_num < SearchBudget
    THEN "SEARCH"
    ELSE IF coverage > HighThreshold \/ max_seen > HighThreshold
         THEN "APPROACH"
         ELSE "NAVIGATE"

(* determine_phase as it would be if APPROACH needed both values to be high *)
determine_phase_both_high(coverage, step_num, max_seen) ==
    IF coverage < SearchCoverage /\ max_seen < SearchMaxSeen /\ step_num < SearchBudget
    THEN "SEARCH"
    ELSE IF coverage > HighThreshold /\ max_seen > HighThreshold
         THEN "APPROACH"
         ELSE "NAVIGATE"

(* determine_phase as it would be if SEARCH had no step budget *)
determine_phase_unbounded_search(coverage, step_num, max_seen) ==
    IF coverage < SearchCoverage /\ max_seen < SearchMaxSeen
    THEN "SEARCH"
    ELSE IF coverage > HighThreshold \/ max_seen > HighThreshold
         THEN "APPROACH"
         ELSE "NAVIGATE"

determine_phase(coverage, step_num, max_seen) ==
    IF coverage < SearchCoverage /\ max_seen < SearchMaxSeen /\ step_num < SearchBudget
    THEN "SEARCH"
    ELSE IF coverage > HighThreshold \/ max_seen > HighThreshold
         THEN "APPROACH"
         ELSE "NAVIGATE"

(* search_pattern as it would be if the look to the right were a look to   *)
(* the left as well                                                         *)
search_pattern_spin(k) ==
    LET search_cycle == k % SearchCycle
    IN  IF search_cycle < 6 THEN LOOK_LEFT
        ELSE IF search_cycle < 8 THEN (IF search_cycle = 6 THEN LOOK_UP ELSE LOOK_DOWN)
        ELSE IF search_cycle < 15 THEN MOVE_FORWARD
        ELSE IF search_cycle < 18 THEN MOVE_LEFT
        ELSE MOVE_RIGHT

(* The 24-step sweep of the SEARCH phase, keyed by the counter k. *)
search_pattern(k) ==
    LET search_cycle == k % SearchCycle
    IN  IF search_cycle < 3 THEN LOOK_LEFT
        ELSE IF search_cycle < 6 THEN LOOK_RIGHT
        ELSE IF search_cycle < 8 THEN (IF search_cycle = 6 THEN LOOK_UP ELSE LOOK_DOWN)
        ELSE IF search_cycle < 15 THEN MOVE_FORWARD
        ELSE IF search_cycle < 18 THEN MOVE_LEFT
        ELSE MOVE_RIGHT

navigate_pattern(vr, k) ==
    LET max_region == Max3(vr.left, vr.center, vr.right)
    IN  IF vr.left = max_region /\ vr.left > RegionThreshold
        THEN (IF k % NavigateCycle < 2 THEN MOVE_LEFT ELSE MOVE_FORWARD)
        ELSE IF vr.right = max_region /\ vr.right > RegionThreshold
        THEN (IF k % NavigateCycle < 2 THEN MOVE_RIGHT ELSE MOVE_FORWARD)
        ELSE MOVE_FORWARD

plan_water_search(vr, phase, k) ==
    IF phase = "SEARCH" THEN search_pattern(k)
    ELSE IF phase = "NAVIGATE" THEN navigate_pattern(vr, k)
    ELSE (IF vr.total_coverage > HighThreshold THEN MOVE_FORWARD ELSE MOVE_FORWARD)

plan_tree_search(vr, k) ==
    IF vr.total_coverage < TreeVisible
    THEN LET cycle == k % TreeCycle
         IN  IF cycle < 2 THEN LOOK_LEFT
             ELSE IF cycle < 4 THEN LOOK_RIGHT
             ELSE IF cycle < 8 THEN MOVE_FORWARD
             ELSE (IF cycle < 10 THEN MOVE_LEFT ELSE MOVE_RIGHT)
    ELSE LET max_region == Max3(vr.left, vr.center, vr.right)
         IN  IF vr.left = max_region THEN MOVE_LEFT
             ELSE IF vr.right = max_region THEN MOVE_RIGHT
             ELSE MOVE_FORWARD

plan_exploration(k) ==
    LET cycle == k % ExploreCycle
    IN  IF cycle < 2 THEN LOOK_LEFT
        ELSE IF cycle < 4 THEN LOOK_RIGHT
        ELSE IF cycle < 10 THEN MOVE_FORWARD
        ELSE IF cycle < 12 THEN MOVE_LEFT
        ELSE MOVE_RIGHT

(* get_next_action after it stored the phase and incremented step_count to k *)
get_next_action(vr, target, phase, k) ==
    IF target = "water" THEN plan_water_search(vr, phase, k)
    ELSE IF target = "tree" THEN plan_tree_search(vr, k)
    ELSE plan_exploration(k)

-----------------------------------------------------------------------------
(* FeatureDetector: a frame is a matrix of RGB pixels, a colour range a     *)
(* pair of RGB corners, a coverage the matching pixels over the pixels of   *)
(* the region, summed over the ranges of the feature. Coverages are in      *)
(* thousandths, each quotient rounded down.                                 *)

RGB(r, g, b) == << r, g, b >>

WATER_COLORS ==
    << << RGB(30, 100, 150), RGB(100, 180, 255) >>,
       << RGB(20, 60, 120), RGB(80, 120, 200) >>,
       << RGB(60, 140, 180), RGB(120, 200, 255) >> >>

TREE_COLORS ==
    << << RGB(20, 80, 20), RGB(100, 180, 100) >>,
       << RGB(40, 120, 40), RGB(120, 200, 120) >>,
       << RGB(60, 100, 30), RGB(120, 160, 80) >>,
       << RGB(80, 60, 30), RGB(140, 120, 80) >> >>

(* Pixel colours of the frames: black, a blue and a green *)
Palette == { RGB(0, 0, 0), RGB(70, 110, 160), RGB(80, 120, 40) }

(* The images: every size from 1 x 1 to FrameHeight x FrameWidth *)
Frames ==
    UNION { [ (1..h) \X (1..w) -> Palette ] : h \in 1..FrameHeight, w \in 1..FrameWidth }

(* img_array.shape[:2] *)
height(frame) == Cardinality({ p[1] : p \in DOMAIN frame })
width(frame) == Cardinality({ p[2] : p \in DOMAIN frame })

(* What numpy gives for 0 / 0, with a RuntimeWarning: nan, which is no      *)
(* coverage and which a sum with it stays                                   *)
NaN == -1

(* np.all((img >= lower) & (img <= upper), axis=2) at one pixel *)
in_range(pixel, lower, upper) ==
    \A c \in 1..3 : pixel[c] >= lower[c] /\ pixel[c] <= upper[c]

(* Sum over the colour ranges of np.sum(mask) / region_pixels, for the      *)
(* region of the given rows and columns                                      *)
RECURSIVE range_coverage(_, _, _, _, _)
range_coverage(frame, rows, cols, color_ranges, n) ==
    IF n = 0 THEN 0
    ELSE LET lower == color_ranges[n][1]
             upper == color_ranges[n][2]
             mask == { p \in rows \X cols : in_range(frame[p], lower, upper) }
             region_pixels == Cardinality(rows) * Cardinality(cols)
         IN  (Cardinality(mask) * 1000) \div region_pixels
                + range_coverage(frame, rows, cols, color_ranges, n - 1)

(* slices [:n//3], [n//3:2*n//3] and [2*n//3:] of 1..n *)
first_third(n) == 1..(n \div 3)
second_third(n) == ((n \div 3) + 1)..((2 * n) \div 3)
last_third(n) == (((2 * n) \div 3) + 1)..n

(* region_coverage as it would be if a pixel matching several ranges were   *)
(* counted once                                                             *)
region_coverage_union(frame, rows, cols, color_ranges) ==
    IF Cardinality(rows) * Cardinality(cols) = 0 THEN NaN
    ELSE LET mask == { p \in rows \X cols :
                         \E n \in 1..Len(color_ranges) :
                            in_range(frame[p], color_ranges[n][1], color_ranges[n][2]) }
         IN  (Cardinality(mask) * 1000) \div (Cardinality(rows) * Cardinality(cols))

(* The coverage of one region: the loop over the colour ranges divides by   *)
(* region_pixels unguarded, so for a region without pixels every summand is *)
(* 0 / 0                                                                    *)
region_coverage(frame, rows, cols, color_ranges) ==
    IF Cardinality(rows) * Cardinality(cols) = 0 THEN NaN
    ELSE range_coverage(frame, rows, cols, color_ranges, Len(color_ranges))

detect_feature(frame, color_ranges, feature_type) ==
    LET rows == 1..height(frame)
        cols == 1..width(frame)
    IN  [feature |-> feature_type,
         total_coverage |-> region_coverage(frame, rows, cols, color_ranges),
         left |-> region_coverage(frame, rows, first_third(width(frame)), color_ranges),
         center |-> region_coverage(frame, rows, second_third(width(frame)), color_ranges),
         right |-> region_coverage(frame, rows, last_third(width(frame)), color_ranges),
         top |-> region_coverage(frame, first_third(height(frame)), cols, color_ranges),
         middle |-> region_coverage(frame, second_third(height(frame)), cols, color_ranges),
         bottom |-> region_coverage(frame, last_third(height(frame)), cols, color_ranges)]

detect_water(frame) == detect_feature(frame, WATER_COLORS, "water")

detect_trees(frame) == detect_feature(frame, TREE_COLORS, "tree")

-----------------------------------------------------------------------------
(* MinecraftController.execute_action: the boolean it returns and the key   *)
(* whose key-down reached the input layer ("none" when none did).           *)

(* execute_action as it would be if a raising key press were reported as done *)
execute_action_reports_success(action, focus_ok, raise_at) ==
    IF ~focus_ok THEN [ok |-> FALSE, sent |-> "none"]
    ELSE IF action = WAIT THEN [ok |-> TRUE, sent |-> "none"]
    ELSE IF raise_at = "keyDown" THEN [ok |-> TRUE, sent |-> "none"]
    ELSE [ok |-> TRUE, sent |-> action]

execute_action(action, focus_ok, raise_at) ==
    IF ~focus_ok THEN [ok |-> FALSE, sent |-> "none"]
    ELSE IF action = WAIT THEN [ok |-> TRUE, sent |-> "none"]
    ELSE IF raise_at = "keyDown" THEN [ok |-> FALSE, sent |-> "none"]
    ELSE IF raise_at = "keyUp" THEN [ok |-> FALSE, sent |-> action]
    ELSE [ok |-> TRUE, sent |-> action]

(* AgentExecutor._execute_action: every ActionType is routed to the controller *)
agent_execute_action(action, focus_ok, raise_at) ==
    IF action \in ActionType
    THEN execute_action(action, focus_ok, raise_at)
    ELSE [ok |-> FALSE, sent |-> "none"]


-----------------------------------------------------------------------------
(* AgentExecutor *)

ExecutionResult(success, message, n) ==
    [success |-> success, message |-> message, steps_taken |-> n]

(* find_max_steps as it would be without the hard maximum *)
find_max_steps_uncapped(timeout_seconds) ==
    timeout_seconds \div SecondsPerStep

find_max_steps(timeout_seconds) ==
    Min(timeout_seconds \div SecondsPerStep, max_steps_per_goal)

explore_max_steps(timeout_seconds) ==
    Min(timeout_seconds \div SecondsPerStep, ExploreCap)

(* is_found as it would be with the threshold written as a percentage *)
is_found_percent(coverage) == coverage > 100 * FoundThreshold

(* The test that ends a find loop with "Found" *)
is_found(coverage) == coverage > FoundThreshold

(* phase_max_arg as it would be if the phase were computed before the fold *)
phase_max_arg_stale(before, after) == before

(* The max_coverage_seen that determine_phase is handed: the attribute as it *)
(* is after the iteration's coverage was folded into it                      *)
phase_max_arg(before, after) == after

(* find_exhausted_result as it would be if any sighting counted as located *)
find_exhausted_result_any(max_seen, n) ==
    IF max_seen > 0
    THEN ExecutionResult(TRUE, "Located", n)
    ELSE ExecutionResult(FALSE, "Could not find", n)

(* Result of _execute_find_goal once its loop has run out of steps *)
find_exhausted_result(max_seen, n) ==
    IF max_seen > LocatedThreshold
    THEN ExecutionResult(TRUE, "Located", n)
    ELSE ExecutionResult(FALSE, "Could not find", n)

(* The three-valued verdict an ExecutionResult of a find goal stands for *)
Verdict(result) ==
    IF result.message = "Found" THEN "SUCCESS"
    ELSE IF result.success THEN "PARTIAL_SUCCESS"
    ELSE "FAILURE"

(* Constants of _execute_navigate_goal *)
DefaultDistance == 20
NavigateCap == 50
TurnEvery == 10

(* timeout_seconds = None (the field is Optional[int]) *)
NoTimeout == -1

(* Values of Direction used here; "none" is direction = None *)
Directions == { "north", "east", "northwest" }

(* A NavigateGoal. distance = None is written 0: `goal.distance or 20`      *)
(* treats the two alike.                                                     *)
NavigateGoal(target, direction, distance, timeout) ==
    [goal_type |-> "navigate", target |-> target, timeout_seconds |-> timeout,
     direction |-> direction, distance |-> distance]

(* steps_needed of _execute_navigate_goal (// rounds down) *)
steps_needed(distance) ==
    (IF distance = 0 THEN DefaultDistance ELSE distance) \div 2

(* The number of iterations of range(min(steps_needed, 50)) *)
navigate_loop_steps(distance) ==
    Max(0, Min(steps_needed(distance), NavigateCap))

(* The action of iteration `k` of the loop of _execute_navigate_goal *)
navigate_action(direction, k) ==
    IF k % TurnEvery = 0
    THEN IF direction \in { "north", "south" }
         THEN (IF k % (2 * TurnEvery) = 0 THEN LOOK_UP ELSE LOOK_DOWN)
         ELSE IF direction \in { "west", "northwest", "southwest" }
         THEN LOOK_LEFT
         ELSE LOOK_RIGHT
    ELSE MOVE_FORWARD

(* Finish as it would be if execute_goal did its bookkeeping after the try  *)
(* statement, with neither an except nor a finally clause: a routine that   *)
(* raises leaves the goal as it was                                         *)
Finish_on_return_only(result) ==
    /\ pc' = "idle"
    /\ max_steps' = 0
    /\ step' = 0
    /\ steps_taken' = 0
    /\ UNCHANGED goal
    /\ IF result.message \in { "", "Goal execution failed" }
       THEN UNCHANGED << goal_status, execution_history, current_goal >>
       ELSE /\ goal_status' = IF result.success THEN "completed" ELSE "failed"
            /\ execution_history' = Append(execution_history, result)
            /\ current_goal' = NoGoal

(* execute_goal's finally block, after the goal routine returned `result` *)
Finish(result) ==
    /\ goal_status' = IF result.success THEN "completed" ELSE "failed"
    /\ execution_history' = Append(execution_history, result)
    /\ current_goal' = NoGoal
    /\ pc' = "idle"
    /\ max_steps' = 0
    /\ step' = 0
    /\ steps_taken' = 0
    /\ UNCHANGED goal

InitBase ==
    /\ pc = "idle"
    /\ goal = NoGoal
    /\ current_goal = NoGoal
    /\ goal_status = "none"
    /\ execution_history = << >>
    /\ max_coverage_seen = 0
    /\ current_phase = "SEARCH"
    /\ step_count = 0
    /\ max_steps = 0
    /\ step = 0
    /\ steps_taken = 0
    /\ target_type = "none"
    /\ max_coverage = 0
    /\ mission_verdict = "none"
    /\ tick = NoTick
    /\ episodes = 0
    /\ faults = 0
    /\ mark = NoMark
    /\ trace = << >>
    /\ prev_trace = << >>
    /\ held = {}
    /\ report = NoReport
    /\ img = NoImage
    /\ action_history = << >>
    /\ decision = NoDecision
    /\ launch = NoLaunch
    /\ rule_agent = NewRuleBasedAgent
    /\ last_actions = << >>
    /\ clock = 0

Init ==
    /\ InitBase
    /\ feed = << >>

(* execute_goal with a FindGoal, up to the first loop test *)
StartFind(target, timeout) ==
    /\ pc = "idle"
    /\ goal' = [goal_type |-> "find", target |-> target, timeout_seconds |-> timeout]
    /\ current_goal' = goal'
    /\ goal_status' = "in_progress"
    /\ max_steps' = find_max_steps(timeout)
    /\ max_coverage_seen' = 0
    /\ steps_taken' = 0
    /\ step' = 0
    /\ pc' = "find"
    /\ tick' = NoTick
    /\ episodes' = episodes + 1
    /\ UNCHANGED << execution_history, current_phase, step_count, target_type,
                    max_coverage, mission_verdict >>

(* One iteration of the loop of _execute_find_goal. vr is what analyze_*     *)
(* returns; focus_ok and raise_at are what the actuator meets when reached.  *)
FindIteration(vr, focus_ok, raise_at) ==
    /\ pc = "find"
    /\ step < max_steps
    /\ UNCHANGED << target_type, max_coverage, mission_verdict, episodes >>
    /\ IF vr = None
       THEN \* analyze_* returned None: continue
            /\ focus_ok /\ raise_at = "none"
            /\ tick' = [NoTick EXCEPT !.loop = "find", !.step = step,
                                      !.capture = "fail"]
            /\ step' = step + 1
            /\ UNCHANGED << pc, goal, current_goal, goal_status, execution_history,
                            max_coverage_seen, current_phase, step_count,
                            max_steps, steps_taken >>
       ELSE LET coverage == vr.total_coverage
                new_max == Max(max_coverage_seen, coverage)
            IN  /\ max_coverage_seen' = new_max
                /\ IF is_found(coverage)
                   THEN \* return from inside the loop
                        /\ focus_ok /\ raise_at = "none"
                        /\ tick' = [NoTick EXCEPT !.loop = "find", !.step = step,
                                                  !.capture = "ok",
                                                  !.coverage = coverage]
                        /\ Finish(ExecutionResult(TRUE, "Found", step + 1))
                        /\ UNCHANGED << current_phase, step_count >>
                   ELSE LET seen == phase_max_arg(max_coverage_seen, new_max)
                            phase == determine_phase(coverage, step, seen)
                            k == step_count + 1
                            action == get_next_action(vr, goal.target, phase, k)
                            r == agent_execute_action(action, focus_ok, raise_at)
                        IN  /\ focus_ok \/ raise_at = "none"
                            /\ current_phase' = phase
                            /\ step_count' = k
                            /\ tick' = [loop |-> "find", step |-> step,
                                        capture |-> "ok", coverage |-> coverage,
                                        phase |-> phase, phase_max |-> seen,
                                        action |-> action,
                                        focus |-> IF focus_ok THEN "ok" ELSE "fail",
                                        sent |-> r.sent, ok |-> r.ok]
                            /\ steps_taken' = IF r.ok THEN step + 1 ELSE steps_taken
                            /\ step' = step + 1
                            /\ UNCHANGED << pc, goal, current_goal, goal_status,
                                            execution_history, max_steps >>

(* A KeyboardInterrupt raised inside an iteration of the find loop, either   *)
(* while the screen is captured or during the sleep between key-down and    *)
(* key-up. It is no Exception, so neither the capture, the controller nor   *)
(* _execute_action catches it; execute_goal's finally block records a       *)
(* failed result and its return statement discards the interrupt.           *)
InterruptPoints == { "capture", "pulse" }

FindInterrupt(vr, at) ==
    /\ pc = "find"
    /\ step < max_steps
    /\ UNCHANGED << target_type, max_coverage, mission_verdict, episodes >>
    /\ Finish(ExecutionResult(FALSE, "", 0))
    /\ IF at = "capture"
       THEN /\ tick' = [NoTick EXCEPT !.loop = "find", !.step = step,
                                      !.capture = "interrupted"]
            /\ UNCHANGED << max_coverage_seen, current_phase, step_count >>
       ELSE /\ vr # None
            /\ ~is_found(vr.total_coverage)
            /\ LET coverage == vr.total_coverage
                   new_max == Max(max_coverage_seen, coverage)
                   seen == phase_max_arg(max_coverage_seen, new_max)
                   phase == determine_phase(coverage, step, seen)
                   k == step_count + 1
                   action == get_next_action(vr, goal.target, phase, k)
               IN  /\ action # WAIT
                   /\ max_coverage_seen' = new_max
                   /\ current_phase' = phase
                   /\ step_count' = k
                   /\ tick' = [loop |-> "find", step |-> step,
                               capture |-> "ok", coverage |-> coverage,
                               phase |-> phase, phase_max |-> seen,
                               action |-> action, focus |-> "ok",
                               sent |-> action, ok |-> FALSE]

(* The loop ran out of steps: the result from max_coverage_seen *)
FindExhausted ==
    /\ pc = "find"
    /\ step = max_steps
    /\ Finish(find_exhausted_result(max_coverage_seen, steps_taken))
    /\ UNCHANGED << max_coverage_seen, current_phase, step_count, target_type,
                    max_coverage, mission_verdict, tick, episodes >>

(* execute_goal with an ExploreGoal, up to the first loop test *)
StartExplore(timeout) ==
    /\ pc = "idle"
    /\ goal' = [goal_type |-> "explore", target |-> "none",
                timeout_seconds |-> timeout]
    /\ current_goal' = goal'
    /\ goal_status' = "in_progress"
    /\ max_steps' = explore_max_steps(timeout)
    /\ steps_taken' = 0
    /\ step' = 0
    /\ pc' = "explore"
    /\ tick' = NoTick
    /\ episodes' = episodes + 1
    /\ UNCHANGED << execution_history, max_coverage_seen, current_phase, step_count,
                    target_type, max_coverage, mission_verdict >>

(* One iteration of the loop of _execute_explore_goal *)
ExploreIteration(focus_ok, raise_at) ==
    /\ pc = "explore"
    /\ step < max_steps
    /\ focus_ok \/ raise_at = "none"
    /\ LET action == plan_exploration(step)
           r == agent_execute_action(action, focus_ok, raise_at)
       IN  tick' = [NoTick EXCEPT !.loop = "explore", !.step = step,
                                  !.action = action,
                                  !.focus = IF focus_ok THEN "ok" ELSE "fail",
                                  !.sent = r.sent, !.ok = r.ok]
    /\ steps_taken' = steps_taken + 1
    /\ step' = step + 1
    /\ UNCHANGED << pc, goal, current_goal, goal_status, execution_history,
                    max_coverage_seen, current_phase, step_count, max_steps,
                    target_type, max_coverage, mission_verdict, episodes >>

ExploreExhausted ==
    /\ pc = "explore"
    /\ step = max_steps
    /\ Finish(ExecutionResult(TRUE, "Explored", steps_taken))
    /\ UNCHANGED << max_coverage_seen, current_phase, step_count, target_type,
                    max_coverage, mission_verdict, tick, episodes >>

(* execute_goal up to its try statement, for any goal object *)
StartGoal(g) ==
    /\ pc = "idle"
    /\ goal' = g
    /\ current_goal' = g
    /\ goal_status' = "in_progress"
    /\ steps_taken' = 0
    /\ pc' = "try"
    /\ tick' = NoTick
    /\ episodes' = episodes + 1
    /\ UNCHANGED << execution_history, max_coverage_seen, current_phase, step_count,
                    max_steps, step, target_type, max_coverage, mission_verdict >>

(* The first statements of _execute_find_goal, also reached from            *)
(* _execute_navigate_goal with a target                                     *)
EnterFind ==
    /\ max_steps' = find_max_steps(goal.timeout_seconds)
    /\ max_coverage_seen' = 0
    /\ steps_taken' = 0
    /\ step' = 0
    /\ pc' = "find"
    /\ UNCHANGED << goal, current_goal, goal_status, execution_history >>

(* The body of execute_goal's try statement up to the first loop test of    *)
(* the routine it calls, or to the end of execute_goal when there is no     *)
(* loop: a goal type that is missing or unknown, a NavigateGoal with        *)
(* neither target nor direction, or timeout_seconds // 2 raising TypeError  *)
(* on None                                                                  *)
Route ==
    /\ pc = "try"
    /\ UNCHANGED << current_phase, step_count, target_type, max_coverage,
                    mission_verdict, tick, episodes >>
    /\ IF goal.goal_type = "missing"
       THEN /\ Finish(ExecutionResult(FALSE, "Goal missing goal_type attribute", 0))
            /\ UNCHANGED max_coverage_seen
       ELSE IF goal.goal_type = "find"
               \/ (goal.goal_type = "navigate" /\ goal.target # "none")
       THEN IF goal.timeout_seconds = NoTimeout
            THEN /\ Finish(ExecutionResult(FALSE, "Goal execution failed", 0))
                 /\ UNCHANGED max_coverage_seen
            ELSE EnterFind
       ELSE IF goal.goal_type = "navigate"
       THEN IF goal.direction # "none"
            THEN /\ max_steps' = navigate_loop_steps(goal.distance)
                 /\ step' = 0
                 /\ pc' = "navigate"
                 /\ UNCHANGED << goal, current_goal, goal_status, execution_history,
                                 max_coverage_seen, steps_taken >>
            ELSE /\ Finish(ExecutionResult(FALSE,
                               "Navigate goal missing target or direction", 0))
                 /\ UNCHANGED max_coverage_seen
       ELSE IF goal.goal_type = "explore"
       THEN IF goal.timeout_seconds = NoTimeout
            THEN /\ Finish(ExecutionResult(FALSE, "Goal execution failed", 0))
                 /\ UNCHANGED max_coverage_seen
            ELSE /\ max_steps' = explore_max_steps(goal.timeout_seconds)
                 /\ steps_taken' = 0
                 /\ step' = 0
                 /\ pc' = "explore"
                 /\ UNCHANGED << goal, current_goal, goal_status, execution_history,
                                 max_coverage_seen >>
       ELSE /\ Finish(ExecutionResult(FALSE, "Unknown goal type", 0))
            /\ UNCHANGED max_coverage_seen

(* One iteration of the loop of _execute_navigate_goal *)
NavigateIteration(focus_ok, raise_at) ==
    /\ pc = "navigate"
    /\ step < max_steps
    /\ focus_ok \/ raise_at = "none"
    /\ LET action == navigate_action(goal.direction, step)
           r == agent_execute_action(action, focus_ok, raise_at)
       IN  tick' = [NoTick EXCEPT !.loop = "navigate", !.step = step,
                                  !.action = action,
                                  !.focus = IF focus_ok THEN "ok" ELSE "fail",
                                  !.sent = r.sent, !.ok = r.ok]
    /\ step' = step + 1
    /\ UNCHANGED << pc, goal, current_goal, goal_status, execution_history,
                    max_coverage_seen, current_phase, step_count, max_steps,
                    steps_taken, target_type, max_coverage, mission_verdict,
                    episodes >>

(* The loop of _execute_navigate_goal is over: steps_taken is steps_needed *)
NavigateExhausted ==
    /\ pc = "navigate"
    /\ step = max_steps
    /\ Finish(ExecutionResult(TRUE, "Moved", steps_needed(goal.distance)))
    /\ UNCHANGED << max_coverage_seen, current_phase, step_count, target_type,
                    max_coverage, mission_verdict, tick, episodes >>

-----------------------------------------------------------------------------
(* minecraft_simple_chat.py *)

(* get_smart_action: the script's own phase rule and the same action tables, *)
(* keyed by the loop index n                                                 *)
get_smart_action(target, vision_data, n) ==
    IF vision_data = None THEN MOVE_FORWARD
    ELSE IF target = "water"
    THEN LET coverage == vision_data.total_coverage
             phase == IF coverage < SearchCoverage THEN "SEARCH"
                      ELSE IF coverage > HighThreshold THEN "APPROACH"
                      ELSE "NAVIGATE"
         IN  IF phase = "SEARCH" THEN search_pattern(n)
             ELSE IF phase = "NAVIGATE" THEN navigate_pattern(vision_data, n)
             ELSE MOVE_FORWARD
    ELSE IF target = "tree" THEN plan_tree_search(vision_data, n)
    ELSE plan_exploration(n)

(* execute_minecraft_command: the focus result is ignored and an exception *)
(* of the input layer is not caught                                        *)
execute_minecraft_command(command, focus_ok, raise_at) ==
    IF raise_at = "keyDown" THEN [raised |-> TRUE, sent |-> "none"]
    ELSE IF raise_at = "keyUp" THEN [raised |-> TRUE, sent |-> command]
    ELSE [raised |-> FALSE, sent |-> command]

mission_exhausted_verdict(max_seen) ==
    IF max_seen > LocatedThreshold THEN "PARTIAL_SUCCESS" ELSE "FAILURE"

EndMission(verdict) ==
    /\ mission_verdict' = verdict
    /\ pc' = "idle"
    /\ max_steps' = 0
    /\ step' = 0

(* execute_find_mission(target, steps), up to the first loop test *)
StartMission(target, steps) ==
    /\ pc = "idle"
    /\ target_type' = target
    /\ max_steps' = steps
    /\ max_coverage' = 0
    /\ step' = 0
    /\ mission_verdict' = "none"
    /\ pc' = "mission"
    /\ tick' = NoTick
    /\ episodes' = episodes + 1
    /\ UNCHANGED << goal, current_goal, goal_status, execution_history,
                    max_coverage_seen, current_phase, step_count, steps_taken >>

(* One iteration of the loop of execute_find_mission *)
MissionIteration(vision_data, focus_ok, raise_at) ==
    /\ pc = "mission"
    /\ step < max_steps
    /\ UNCHANGED << goal, current_goal, goal_status, execution_history,
                    max_coverage_seen, current_phase, step_count, steps_taken,
                    target_type, episodes >>
    /\ LET coverage == IF vision_data = None THEN 0 ELSE vision_data.total_coverage
           new_max == Max(max_coverage, coverage)
           captured == IF vision_data = None THEN "fail" ELSE "ok"
       IN  /\ max_coverage' = new_max
           /\ IF is_found(coverage)
              THEN \* found_target = True; break; return True
                   /\ focus_ok /\ raise_at = "none"
                   /\ tick' = [NoTick EXCEPT !.loop = "mission", !.step = step,
                                             !.capture = captured,
                                             !.coverage = coverage]
                   /\ EndMission("SUCCESS")
              ELSE LET action == get_smart_action(target_type, vision_data, step)
                       r == execute_minecraft_command(action, focus_ok, raise_at)
                   IN  /\ tick' = [NoTick EXCEPT !.loop = "mission", !.step = step,
                                          !.capture = captured,
                                          !.coverage = coverage, !.action = action,
                                          !.focus = IF focus_ok THEN "ok" ELSE "fail",
                                          !.sent = r.sent, !.ok = ~r.raised]
                       /\ IF r.raised
                          THEN EndMission("ERROR")
                          ELSE /\ step' = step + 1
                               /\ UNCHANGED << pc, max_steps, mission_verdict >>

MissionExhausted ==
    /\ pc = "mission"
    /\ step = max_steps
    /\ EndMission(mission_exhausted_verdict(max_coverage))
    /\ UNCHANGED << goal, current_goal, goal_status, execution_history,
                    max_coverage_seen, current_phase, step_count, steps_taken,
                    target_type, max_coverage, tick, episodes >>

-----------------------------------------------------------------------------
(* RuleBasedAgent (ai/agent.py). Gathered amounts are in tenths (0.5 is 5,  *)
(* 0.3 is 3, the target 15 is 150), colour coverages in thousandths.        *)

target_wood == 150
target_dirt == 200
WoodStep == 5
DirtStep == 3
MaxMiningAttempts == 8

(* What observe returns when the vision raised *)
ObservationError ==
    [error |-> TRUE, wood |-> 0, leaves |-> 0, dirt |-> 0, grass |-> 0, stone |-> 0,
     sky |-> 0]

(* Colour coverages an observation can hold *)
Observations ==
    { [error |-> FALSE, wood |-> w, leaves |-> 0, dirt |-> dd, grass |-> g,
       stone |-> 0, sky |-> 0] : w \in { 0, 30 }, dd \in { 0, 40 }, g \in { 0, 120, 200 } }

(* decide's first step: the phase is chosen from the gathered amounts only  *)
(* while it is 'exploring'                                                  *)
update_phase(agent) ==
    IF agent.building_phase = "exploring"
    THEN IF agent.wood_gathered < target_wood
         THEN [agent EXCEPT !.gathering_target = "wood",
                            !.building_phase = "gathering_wood"]
         ELSE IF agent.dirt_gathered < target_dirt
         THEN [agent EXCEPT !.gathering_target = "dirt",
                            !.building_phase = "gathering_dirt"]
         ELSE [agent EXCEPT !.building_phase = "building"]
    ELSE agent

(* RuleBasedAgent.decide: the attributes it leaves and the action type it   *)
(* returns ("None" for None); first and second are the outcomes of the      *)
(* random draws it makes                                                    *)
rule_decide(agent, observation, first, second) ==
    IF observation.error THEN [agent |-> agent, action_type |-> "None"]
    ELSE
    LET a == update_phase(agent)
        trees == observation.wood > 20 \/ observation.leaves > 80
    IN  IF a.building_phase = "gathering_wood"
        THEN LET same == a.wood_gathered = a.last_wood_count
                 b == [a EXCEPT !.mining_attempts = IF same THEN @ + 1 ELSE 0,
                                !.last_wood_count = a.wood_gathered]
             IN  IF b.mining_attempts > MaxMiningAttempts
                 THEN [agent |-> [b EXCEPT !.mining_attempts = 0],
                       action_type |-> IF first THEN "move_forward" ELSE "look_around"]
                 ELSE IF trees
                 THEN [agent |-> [b EXCEPT !.wood_gathered = @ + WoodStep],
                       action_type |-> "mine"]
                 ELSE IF observation.grass > 100
                 THEN [agent |-> b,
                       action_type |-> IF first THEN "move_forward" ELSE "look_around"]
                 ELSE [agent |-> b, action_type |-> "explore_for_trees"]
        ELSE IF a.building_phase = "gathering_dirt"
        THEN IF observation.dirt > 30
             THEN [agent |-> [a EXCEPT !.dirt_gathered = @ + DirtStep],
                   action_type |-> "mine"]
             ELSE IF observation.grass > 150
             THEN [agent |-> a, action_type |-> "mine"]
             ELSE [agent |-> a, action_type |-> "explore_for_dirt"]
        ELSE IF a.building_phase = "building"
        THEN [agent |-> a, action_type |-> "build_shelter"]
        ELSE [agent |-> a,
              action_type |->
                 IF trees THEN "mine"
                 ELSE IF observation.dirt > 50 THEN "mine"
                 ELSE IF observation.stone > 30 THEN "mine"
                 ELSE IF observation.sky > 300
                 THEN (IF first THEN "center_view" ELSE "look_around")
                 ELSE IF first THEN "move_forward"
                 ELSE IF second THEN "center_view"
                 ELSE "look_around"]

(* RuleBasedAgent.act: the action_history it leaves; an exception of the    *)
(* input layer is caught before the action is recorded                      *)
rule_act(history, action, raised) ==
    IF raised THEN history ELSE keep_last(Append(history, action), RuleHistoryCap)

(* A call of decide on the agent *)
RuleDecide(observation, first, second) ==
    LET decided == rule_decide(rule_agent, observation, first, second)
    IN  /\ rule_agent' = decided.agent
        /\ decision' = [NoDecision EXCEPT !.agent = "RuleBasedAgent",
                                          !.action_type = decided.action_type]

(* A call of act on the agent with an Action made now *)
RuleAct(action_type, raised) ==
    /\ clock' = clock + 1
    /\ rule_agent' = [rule_agent EXCEPT !.action_history =
                          rule_act(@, Action(action_type, clock), raised)]
    /\ decision' = [NoDecision EXCEPT !.agent = "RuleBasedAgent",
                                      !.action_type = action_type,
                                      !.propagated = FALSE]

-----------------------------------------------------------------------------
(* LLMMinecraftAgent (ai/llm_agent.py). A response text is a sequence of    *)
(* lines; a line is what it starts with ("ACTION:", "REASON:" or neither)   *)
(* and the rest of it, stripped.                                            *)

LineHeads == { "ACTION:", "REASON:", "" }

LineBodies == { "move_forward", "fly", "", "I will move forward",
                "look to the left", "chop the tree", "hmm" }

Lines == [head : LineHeads, body : LineBodies]

Responses == UNION { [1..n -> Lines] : n \in 0..MaxLines }

(* What the decision service does with a request *)
ServiceOutcomes == { "ok", "raise", "timeout", "bad_status" }

(* The words _parse_llm_response looks for that occur in the lower-cased text *)
body_words(body) ==
    IF body \in { "move_forward", "I will move forward" } THEN { "move", "forward" }
    ELSE IF body = "look to the left" THEN { "look", "left" }
    ELSE IF body = "chop the tree" THEN { "chop" }
    ELSE {}

response_words(response) ==
    UNION { body_words(response[i].body) : i \in 1..Len(response) }

(* response.strip() is the empty string *)
is_blank(response) ==
    \A i \in 1..Len(response) : response[i].head = "" /\ response[i].body = ""

(* OllamaClient.generate: the text of the answer, and "" (no lines) when    *)
(* the request raised, timed out or came back with an error status          *)
generate(service, response) ==
    IF service = "ok" /\ ~is_blank(response) THEN response ELSE << >>

(* The rest of the last line that starts with the given head, "" if none *)
last_line(response, head) ==
    LET with_head == { i \in 1..Len(response) : response[i].head = head }
    IN  IF with_head = {} THEN ""
        ELSE response[CHOOSE i \in with_head : \A j \in with_head : j <= i].body

(* LLMMinecraftAgent._parse_llm_response: the action_type of the Action *)
parse_llm_response(response) ==
    LET action_line == last_line(response, "ACTION:")
        words == response_words(response)
    IN  IF action_line # "" THEN action_line
        ELSE IF {"move", "forward"} \subseteq words THEN "move_forward"
        ELSE IF {"look", "left"} \subseteq words THEN "look_left"
        ELSE IF {"look", "right"} \subseteq words THEN "look_right"
        ELSE IF "mine" \in words \/ "chop" \in words THEN "mine"
        ELSE IF "center" \in words THEN "center_view"
        ELSE "look_around"

(* LLMMinecraftAgent.decide: the action_type of the Action it returns, "None" *)
(* when it returns None                                                       *)
decide(observed, service, response) ==
    IF ~observed THEN "None"
    ELSE LET llm_response == generate(service, response)
         IN  IF llm_response = << >> THEN "look_around"
             ELSE parse_llm_response(llm_response)

(* The action types LLMMinecraftAgent._execute_action has a branch for *)
KnownActions == { "move_forward", "look_left", "look_right", "look_up", "look_down",
                 "center_view", "mine", "place", "jump", "wait" }

(* LLMMinecraftAgent._execute_action: the key or button it presses *)
llm_execute_action(action_type) ==
    IF action_type = "move_forward" THEN "up"
    ELSE IF action_type = "look_left" THEN "j"
    ELSE IF action_type = "look_right" THEN "l"
    ELSE IF action_type = "look_up" THEN "i"
    ELSE IF action_type = "look_down" THEN "k"
    ELSE IF action_type = "center_view" THEN "enter"
    ELSE IF action_type = "mine" THEN "left_click"
    ELSE IF action_type = "place" THEN "right_click"
    ELSE IF action_type = "jump" THEN "space"
    ELSE IF action_type = "wait" THEN "none"
    ELSE "l"

(* LLMMinecraftAgent.act: the action_history it leaves; nothing is recorded *)
(* when _execute_action raised                                             *)
llm_act(history, action, raised) ==
    IF raised THEN history ELSE keep_last(Append(history, action), LLMHistoryCap)

(* One cycle observe, decide, act of the agent *)
AgentCycle(observed, service, response) ==
    /\ clock < MaxCycles
    /\ clock' = clock + 1
    /\ service = "ok" \/ response = << >>
    /\ LET action_type == decide(observed, service, response)
       IN  /\ decision' = [agent |-> "LLMMinecraftAgent",
                           service |-> IF observed THEN service ELSE "none",
                           response |-> IF observed THEN response ELSE << >>,
                           action_type |-> action_type,
                           propagated |-> FALSE,
                           key |-> IF action_type = "None" THEN "none"
                                   ELSE llm_execute_action(action_type)]
           /\ action_history' = IF action_type = "None" THEN action_history
                                ELSE llm_act(action_history, Action(action_type, clock), FALSE)

(* A call of act on the agent with an Action made now *)
LLMAct(action_type, raised) ==
    /\ clock' = clock + 1
    /\ action_history' = llm_act(action_history, Action(action_type, clock), raised)
    /\ decision' = [NoDecision EXCEPT !.agent = "LLMMinecraftAgent",
                                      !.action_type = action_type,
                                      !.key = llm_execute_action(action_type)]

-----------------------------------------------------------------------------
(* VisionLLMAgent (test_vision_llm_agent.py) *)

(* The action names execute_action has a branch for *)
VisionActions == { "move_forward", "look_left", "look_right", "look_up", "look_down",
                   "center_view", "mine", "wait" }

(* VisionLLMAgent.execute_action: the last_actions it leaves; a known or an *)
(* unknown action is recorded unless the input layer raised                 *)
vision_execute_action(history, action, raised) ==
    IF raised THEN history ELSE keep_last(Append(history, action), LastActionsCap)

VisionAct(action, raised) ==
    /\ raised => action \in VisionActions \ { "wait" }
    /\ clock' = clock + 1
    /\ last_actions' = vision_execute_action(last_actions, action, raised)
    /\ decision' = [NoDecision EXCEPT !.agent = "VisionLLMAgent",
                                      !.action_type = action]

-----------------------------------------------------------------------------
(* LiveLLMAgent (test_live_llm_agent.py) *)

max_cycles == 5

(* LiveLLMAgent.make_decision: the action name it returns *)
live_make_decision(service, response) ==
    IF service # "ok" THEN "wait"
    ELSE LET actions == { i \in 1..Len(response) : response[i].head = "ACTION:" }
         IN  IF is_blank(response) \/ actions = {} THEN "look_right"
             ELSE response[CHOOSE i \in actions : \A j \in actions : i <= j].body

(* LiveLLMAgent.execute_action: the key or button it presses *)
live_execute_action(action) ==
    IF action = "move_forward" THEN "up"
    ELSE IF action = "look_left" THEN "j"
    ELSE IF action = "look_right" THEN "l"
    ELSE IF action = "look_up" THEN "i"
    ELSE IF action = "look_down" THEN "k"
    ELSE IF action = "center_view" THEN "enter"
    ELSE IF action = "mine" THEN "left_click"
    ELSE "none"

-----------------------------------------------------------------------------
(* The scripts' main functions *)

Scripts == { "minecraft_chat.py", "minecraft_simple_chat.py", "test_live_llm_agent.py" }

(* What the command line holds for --ready *)
ReadyArgs == { "absent", "n", "y" }

(* The scripts whose main parses --ready and returns unless it is y *)
Gated == { "minecraft_chat.py", "minecraft_simple_chat.py" }

(* main up to the point where it returns or starts its agent *)
Main(script, ready) ==
    /\ launch = NoLaunch
    /\ pc = "idle"
    /\ launch' = IF script \in Gated /\ ready # "y"
                 THEN [NoLaunch EXCEPT !.script = script, !.ready = ready,
                                       !.stage = "exited", !.exit_code = 0]
                 ELSE [NoLaunch EXCEPT !.script = script, !.ready = ready,
                                       !.stage = "running"]

Running(script) == launch.stage = "running" /\ launch.script = script

(* The side effects of a loop iteration, added to those of the run so far *)
Effects(captured) ==
    launch' = [launch EXCEPT !.capture = @ \/ captured,
                             !.focus = @ \/ tick'.focus # "none",
                             !.input = @ \/ tick'.sent # "none"]

(* One iteration of the loop of test_live_llm_agent.main: LiveLLMAgent.run_cycle *)
RunCycle(service, response) ==
    /\ Running("test_live_llm_agent.py")
    /\ launch.cycles < max_cycles
    /\ service = "ok" \/ response = << >>
    /\ LET action == live_make_decision(service, response)
           key == live_execute_action(action)
       IN  /\ decision' = [agent |-> "LiveLLMAgent", service |-> service,
                           response |-> response, action_type |-> action,
                           propagated |-> FALSE, key |-> key]
           /\ launch' = [launch EXCEPT !.cycles = @ + 1, !.focus = TRUE,
                                       !.input = @ \/ key # "none",
                                       !.stage = IF launch.cycles + 1 = max_cycles
                                                 THEN "exited" ELSE "running",
                                       !.exit_code = IF launch.cycles + 1 = max_cycles
                                                     THEN 0 ELSE -1]

-----------------------------------------------------------------------------
(* Environment: what a capture and the input layer may do *)

FaultCost(captured, focus_ok, raise_at) ==
    (IF captured THEN 0 ELSE 1) + (IF focus_ok THEN 0 ELSE 1)
        + (IF raise_at = "none" THEN 0 ELSE 1)

Fail(cost) ==
    /\ faults + cost <= MaxFaults
    /\ faults' = faults + cost

NoObservation == UNCHANGED << mark, feed, trace, prev_trace >>

(* The parts of the state the executor and the mission script do not touch *)
Elsewhere ==
    UNCHANGED << report, img, rule_agent, last_actions, clock, action_history,
                 decision, launch >>

(* A key whose key-down was sent in a tick that did not complete (the       *)
(* key-up raised) stays down at the input layer                             *)
KeysAfterTick ==
    held' = IF tick'.sent # "none" /\ ~tick'.ok THEN held \cup {tick'.sent} ELSE held

KeysUntouched == UNCHANGED held

-----------------------------------------------------------------------------
(* Spec: a new AgentExecutor (or a new run of the script) and the first goal *)
(* it is given                                                               *)

FirstGoal == episodes = 0

SubmitFind ==
    /\ FirstGoal
    /\ \E target \in TargetType, timeout \in Timeouts : StartFind(target, timeout)
    /\ UNCHANGED faults
    /\ NoObservation
    /\ Elsewhere
    /\ KeysUntouched

FindTick ==
    /\ \E vr \in VisionResults \cup {None}, focus_ok \in BOOLEAN,
          raise_at \in RaisePoints :
            /\ Fail(FaultCost(vr # None, focus_ok, raise_at))
            /\ FindIteration(vr, focus_ok, raise_at)
    /\ NoObservation
    /\ Elsewhere
    /\ KeysUntouched

FindReturn ==
    /\ FindExhausted
    /\ UNCHANGED faults
    /\ NoObservation
    /\ Elsewhere
    /\ KeysUntouched

SubmitExplore ==
    /\ FirstGoal
    /\ \E timeout \in Timeouts : StartExplore(timeout)
    /\ UNCHANGED faults
    /\ NoObservation
    /\ Elsewhere
    /\ KeysUntouched

ExploreTick ==
    /\ \E focus_ok \in BOOLEAN, raise_at \in RaisePoints :
            /\ Fail(FaultCost(TRUE, focus_ok, raise_at))
            /\ ExploreIteration(focus_ok, raise_at)
    /\ NoObservation
    /\ Elsewhere
    /\ KeysUntouched

ExploreReturn ==
    /\ ExploreExhausted
    /\ UNCHANGED faults
    /\ NoObservation
    /\ Elsewhere
    /\ KeysUntouched

SubmitMission ==
    /\ FirstGoal
    /\ \E target \in TargetType, steps \in MissionSteps : StartMission(target, steps)
    /\ UNCHANGED faults
    /\ NoObservation
    /\ Elsewhere
    /\ KeysUntouched

MissionTick ==
    /\ \E vision_data \in VisionResults \cup {None}, focus_ok \in BOOLEAN,
          raise_at \in RaisePoints :
            /\ Fail(FaultCost(vision_data # None, focus_ok, raise_at))
            /\ MissionIteration(vision_data, focus_ok, raise_at)
    /\ NoObservation
    /\ Elsewhere
    /\ KeysUntouched

MissionReturn ==
    /\ MissionExhausted
    /\ UNCHANGED faults
    /\ NoObservation
    /\ Elsewhere
    /\ KeysUntouched

Next ==
    \/ SubmitFind
    \/ FindTick
    \/ FindReturn
    \/ SubmitExplore
    \/ ExploreTick
    \/ ExploreReturn
    \/ SubmitMission
    \/ MissionTick
    \/ MissionReturn

Spec == Init /\ [][Next]_vars

-----------------------------------------------------------------------------
(* SpecPolicy: the planner's pure functions applied to a grid of inputs *)

PolicyCoverages == { 0, 1, 4, 5, 9, 10, 11, 20, 79, 80, 81, 90, 160 }
PolicySteps == { 0, 5, 9, 79, 80, 81, 150 }

CallDeterminePhase ==
    /\ pc = "idle"
    /\ tick = NoTick
    /\ \E coverage \in PolicyCoverages, step_num \in PolicySteps,
          max_seen \in PolicyCoverages :
            tick' = [NoTick EXCEPT !.loop = "unit", !.step = step_num,
                                   !.coverage = coverage, !.phase_max = max_seen,
                                   !.phase = determine_phase(coverage, step_num, max_seen)]
    /\ UNCHANGED << pc, goal, current_goal, goal_status, execution_history,
                    max_coverage_seen, current_phase, step_count, max_steps, step,
                    steps_taken, target_type, max_coverage, mission_verdict,
                    episodes, faults >>
    /\ NoObservation
    /\ Elsewhere
    /\ KeysUntouched

NextPolicy == CallDeterminePhase

SpecPolicy == Init /\ [][NextPolicy]_vars

-----------------------------------------------------------------------------
(* SpecSearch: a water find goal; the action of one SEARCH tick among the   *)
(* first SampleWindow steps is written down in mark                         *)

SearchTimeouts == { 100 }

SearchSubmit ==
    /\ FirstGoal
    /\ \E timeout \in SearchTimeouts : StartFind("water", timeout)
    /\ UNCHANGED << faults, mark, feed, trace, prev_trace >>
    /\ Elsewhere
    /\ KeysUntouched

SearchTick ==
    /\ \E vr \in VisionResults \cup {None}, focus_ok \in BOOLEAN,
          raise_at \in RaisePoints :
            /\ Fail(FaultCost(vr # None, focus_ok, raise_at))
            /\ FindIteration(vr, focus_ok, raise_at)
    /\ NoObservation
    /\ Elsewhere
    /\ KeysUntouched

SearchSample ==
    /\ mark = NoMark
    /\ step < SampleWindow
    /\ \E vr \in VisionResults \cup {None}, focus_ok \in BOOLEAN,
          raise_at \in RaisePoints :
            /\ Fail(FaultCost(vr # None, focus_ok, raise_at))
            /\ FindIteration(vr, focus_ok, raise_at)
    /\ tick'.phase = "SEARCH"
    /\ mark' = [step |-> tick'.step, action |-> tick'.action]
    /\ UNCHANGED << feed, trace, prev_trace >>
    /\ Elsewhere
    /\ KeysUntouched

SearchReturn ==
    /\ FindExhausted
    /\ UNCHANGED << faults, mark, feed, trace, prev_trace >>
    /\ Elsewhere
    /\ KeysUntouched

NextSearch ==
    \/ SearchSubmit
    \/ SearchTick
    \/ SearchSample
    \/ SearchReturn

SpecSearch == Init /\ [][NextSearch]_vars

-----------------------------------------------------------------------------
(* SpecReplay: find episodes run one after the other on one executor, each  *)
(* with the same goal and each fed feed[1], feed[2], ... as vision results  *)

ReplayTimeouts == { 2 * n : n \in 1..FeedLen }

InitReplay ==
    /\ InitBase
    /\ feed \in [1..FeedLen -> VisionResults \cup {None}]

ReplaySubmit ==
    /\ episodes < MaxEpisodes
    /\ \E target \in TargetType, timeout \in ReplayTimeouts :
            /\ episodes = 0 \/ (goal.target = target /\ goal.timeout_seconds = timeout)
            /\ StartFind(target, timeout)
    /\ prev_trace' = trace
    /\ trace' = << >>
    /\ UNCHANGED << faults, mark, feed >>
    /\ Elsewhere
    /\ KeysUntouched

ReplayTick ==
    /\ step < Len(feed)
    /\ FindIteration(feed[step + 1], TRUE, "none")
    /\ trace' = Append(trace, [phase |-> tick'.phase, action |-> tick'.action])
    /\ UNCHANGED << faults, mark, feed, prev_trace >>
    /\ Elsewhere
    /\ KeysUntouched

ReplayReturn ==
    /\ FindExhausted
    /\ UNCHANGED << faults, mark, feed, trace, prev_trace >>
    /\ Elsewhere
    /\ KeysUntouched

NextReplay ==
    \/ ReplaySubmit
    \/ ReplayTick
    \/ ReplayReturn

SpecReplay == InitReplay /\ [][NextReplay]_vars

-----------------------------------------------------------------------------
(* SpecInterrupt: a find goal of the chat's executor; the input layer works *)
(* and the user may press Ctrl-C once while the loop runs                   *)

InterruptTimeouts == { 7, 30 }

InterruptSubmit ==
    /\ FirstGoal
    /\ \E target \in TargetType, timeout \in InterruptTimeouts :
            StartFind(target, timeout)
    /\ UNCHANGED faults
    /\ NoObservation
    /\ Elsewhere
    /\ KeysUntouched

InterruptTick ==
    /\ \E vr \in VisionResults \cup {None} : FindIteration(vr, TRUE, "none")
    /\ UNCHANGED faults
    /\ NoObservation
    /\ Elsewhere
    /\ KeysAfterTick

Interrupt ==
    /\ \E vr \in VisionResults \cup {None}, at \in InterruptPoints :
            FindInterrupt(vr, at)
    /\ UNCHANGED faults
    /\ NoObservation
    /\ Elsewhere
    /\ KeysAfterTick

InterruptReturn ==
    /\ FindExhausted
    /\ UNCHANGED faults
    /\ NoObservation
    /\ Elsewhere
    /\ KeysUntouched

NextInterrupt ==
    \/ InterruptSubmit
    \/ InterruptTick
    \/ Interrupt
    \/ InterruptReturn

SpecInterrupt == Init /\ [][NextInterrupt]_vars

-----------------------------------------------------------------------------
(* SpecDecide: cycles of the model-driven agent *)

DecideCycle ==
    /\ \E observed \in BOOLEAN, service \in ServiceOutcomes, response \in Responses :
            AgentCycle(observed, service, response)
    /\ UNCHANGED << pc, goal, current_goal, goal_status, execution_history,
                    max_coverage_seen, current_phase, step_count, max_steps, step,
                    steps_taken, target_type, max_coverage, mission_verdict, tick,
                    episodes, faults, report, img, rule_agent, last_actions, launch >>
    /\ NoObservation
    /\ KeysUntouched

NextDecide == DecideCycle

SpecDecide == Init /\ [][NextDecide]_vars

-----------------------------------------------------------------------------
(* SpecLaunch: a script is started and runs one command or its cycles *)

LaunchTimeouts == { 300 }
LaunchSteps == { 100 }

Idle ==
    UNCHANGED << pc, goal, current_goal, goal_status, execution_history,
                 max_coverage_seen, current_phase, step_count, max_steps, step,
                 steps_taken, target_type, max_coverage, mission_verdict, tick,
                 episodes >>

Start ==
    /\ \E script \in Scripts, ready \in ReadyArgs : Main(script, ready)
    /\ Idle
    /\ UNCHANGED << faults, report, img, rule_agent, last_actions, clock,
                    action_history, decision >>
    /\ NoObservation
    /\ KeysUntouched

ChatFind ==
    /\ Running("minecraft_chat.py")
    /\ FirstGoal
    /\ \E target \in TargetType, timeout \in LaunchTimeouts : StartFind(target, timeout)
    /\ UNCHANGED << faults, report, img, rule_agent, last_actions, clock,
                    action_history, decision, launch >>
    /\ NoObservation
    /\ KeysUntouched

ChatFindTick ==
    /\ Running("minecraft_chat.py")
    /\ \E vr \in VisionResults \cup {None}, focus_ok \in BOOLEAN,
          raise_at \in RaisePoints :
            /\ Fail(FaultCost(vr # None, focus_ok, raise_at))
            /\ FindIteration(vr, focus_ok, raise_at)
    /\ Effects(TRUE)
    /\ UNCHANGED << report, img, rule_agent, last_actions, clock, action_history,
                    decision >>
    /\ NoObservation
    /\ KeysUntouched

ChatFindReturn ==
    /\ Running("minecraft_chat.py")
    /\ FindExhausted
    /\ UNCHANGED << faults, report, img, rule_agent, last_actions, clock,
                    action_history, decision, launch >>
    /\ NoObservation
    /\ KeysUntouched

SimpleChatFind ==
    /\ Running("minecraft_simple_chat.py")
    /\ FirstGoal
    /\ \E target \in TargetType, steps \in LaunchSteps : StartMission(target, steps)
    /\ UNCHANGED << faults, report, img, rule_agent, last_actions, clock,
                    action_history, decision, launch >>
    /\ NoObservation
    /\ KeysUntouched

SimpleChatTick ==
    /\ Running("minecraft_simple_chat.py")
    /\ \E vision_data \in VisionResults \cup {None}, focus_ok \in BOOLEAN,
          raise_at \in RaisePoints :
            /\ Fail(FaultCost(vision_data # None, focus_ok, raise_at))
            /\ MissionIteration(vision_data, focus_ok, raise_at)
    /\ Effects(TRUE)
    /\ UNCHANGED << report, img, rule_agent, last_actions, clock, action_history,
                    decision >>
    /\ NoObservation
    /\ KeysUntouched

SimpleChatReturn ==
    /\ Running("minecraft_simple_chat.py")
    /\ MissionExhausted
    /\ UNCHANGED << faults, report, img, rule_agent, last_actions, clock,
                    action_history, decision, launch >>
    /\ NoObservation
    /\ KeysUntouched

(* Answers of the decision service to the live agent: at most one line *)
LiveResponses == { response \in Responses : Len(response) <= 1 }

LiveCycle ==
    /\ \E service \in ServiceOutcomes, response \in LiveResponses :
            RunCycle(service, response)
    /\ Idle
    /\ UNCHANGED << faults, report, img, rule_agent, last_actions, clock, action_history >>
    /\ NoObservation
    /\ KeysUntouched

NextLaunch ==
    \/ Start
    \/ ChatFind
    \/ ChatFindTick
    \/ ChatFindReturn
    \/ SimpleChatFind
    \/ SimpleChatTick
    \/ SimpleChatReturn
    \/ LiveCycle

SpecLaunch == Init /\ [][NextLaunch]_vars

-----------------------------------------------------------------------------
(* SpecVision: the detector applied to one frame *)

DetectFeature ==
    /\ pc = "idle"
    /\ report = NoReport
    /\ \E frame \in Frames :
            /\ img' = frame
            /\ \/ report' = detect_water(frame)
               \/ report' = detect_trees(frame)
    /\ UNCHANGED << pc, goal, current_goal, goal_status, execution_history,
                    max_coverage_seen, current_phase, step_count, max_steps, step,
                    steps_taken, target_type, max_coverage, mission_verdict, tick,
                    episodes, faults, action_history, decision, launch,
                    rule_agent, last_actions, clock >>
    /\ NoObservation
    /\ KeysUntouched

NextVision == DetectFeature

SpecVision == Init /\ [][NextVision]_vars

-----------------------------------------------------------------------------
(* SpecSweep: the first find goal of a new executor, fed low coverages; the *)
(* input layer works, a capture may fail. trace holds the actions of the    *)
(* SEARCH ticks since the phase last became SEARCH.                         *)

SweepResults ==
    { VR(1, 0, 3, 0), VR(7, 0, 21, 0), VR(10, 0, 0, 30), VR(90, 0, 270, 0) }

SweepTimeouts == { 60, 170 }

SweepSubmit ==
    /\ FirstGoal
    /\ \E target \in TargetType, timeout \in SweepTimeouts : StartFind(target, timeout)
    /\ UNCHANGED faults
    /\ NoObservation
    /\ Elsewhere
    /\ KeysUntouched

SweepTick ==
    /\ \E vr \in SweepResults \cup {None} :
            /\ Fail(FaultCost(vr # None, TRUE, "none"))
            /\ FindIteration(vr, TRUE, "none")
    /\ trace' = IF tick'.phase = "SEARCH"
                THEN Append(trace, [phase |-> tick'.phase, action |-> tick'.action])
                ELSE IF tick'.phase = "none" THEN trace
                ELSE << >>
    /\ UNCHANGED << mark, feed, prev_trace >>
    /\ Elsewhere
    /\ KeysUntouched

SweepReturn ==
    /\ FindExhausted
    /\ UNCHANGED faults
    /\ NoObservation
    /\ Elsewhere
    /\ KeysUntouched

NextSweep ==
    \/ SweepSubmit
    \/ SweepTick
    \/ SweepReturn

SpecSweep == Init /\ [][NextSweep]_vars

-----------------------------------------------------------------------------
(* SpecHistory: act is called again and again on one agent, the input layer *)
(* raising at most MaxFaults times; trace holds the actions whose act call  *)
(* completed, oldest first.                                                 *)

HistoryActionTypes == { "move_forward" }
VisionActionNames == { "move_forward", "fly" }

OnlyAgent(name) == decision.agent \in { "none", name }

HistoryIdle ==
    UNCHANGED << pc, goal, current_goal, goal_status, execution_history,
                 max_coverage_seen, current_phase, step_count, max_steps, step,
                 steps_taken, target_type, max_coverage, mission_verdict, tick,
                 episodes, mark, feed, prev_trace, held, report, img, launch >>

HistoryRuleAct ==
    /\ OnlyAgent("RuleBasedAgent")
    /\ clock < RuleHistoryCap + HistoryExtra
    /\ \E action_type \in HistoryActionTypes, raised \in BOOLEAN :
            /\ Fail(IF raised THEN 1 ELSE 0)
            /\ RuleAct(action_type, raised)
            /\ trace' = IF raised THEN trace
                        ELSE Append(trace, Action(action_type, clock))
    /\ HistoryIdle
    /\ UNCHANGED << action_history, last_actions >>

HistoryLLMAct ==
    /\ OnlyAgent("LLMMinecraftAgent")
    /\ clock < LLMHistoryCap + HistoryExtra
    /\ \E action_type \in HistoryActionTypes, raised \in BOOLEAN :
            /\ Fail(IF raised THEN 1 ELSE 0)
            /\ LLMAct(action_type, raised)
            /\ trace' = IF raised THEN trace
                        ELSE Append(trace, Action(action_type, clock))
    /\ HistoryIdle
    /\ UNCHANGED << rule_agent, last_actions >>

HistoryVisionAct ==
    /\ OnlyAgent("VisionLLMAgent")
    /\ clock < LastActionsCap + HistoryExtra
    /\ \E action \in VisionActionNames, raised \in BOOLEAN :
            /\ Fail(IF raised THEN 1 ELSE 0)
            /\ VisionAct(action, raised)
            /\ trace' = IF raised THEN trace ELSE Append(trace, action)
    /\ HistoryIdle
    /\ UNCHANGED << rule_agent, action_history >>

NextHistory ==
    \/ HistoryRuleAct
    \/ HistoryLLMAct
    \/ HistoryVisionAct

SpecHistory == Init /\ [][NextHistory]_vars

-----------------------------------------------------------------------------
(* SpecShelter: decide is called again and again on a new RuleBasedAgent,   *)
(* with any observation and any outcome of its random draws, until the wood *)
(* gathered reaches MaxWood                                                 *)

MaxWood == 160

ShelterDecide ==
    /\ rule_agent.wood_gathered < MaxWood
    /\ \E observation \in Observations \cup { ObservationError },
          first \in BOOLEAN, second \in BOOLEAN :
            RuleDecide(observation, first, second)
    /\ UNCHANGED << pc, goal, current_goal, goal_status, execution_history,
                    max_coverage_seen, current_phase, step_count, max_steps, step,
                    steps_taken, target_type, max_coverage, mission_verdict, tick,
                    episodes, faults, report, img, action_history, launch,
                    last_actions, clock >>
    /\ NoObservation
    /\ KeysUntouched

NextShelter == ShelterDecide

SpecShelter == Init /\ [][NextShelter]_vars

-----------------------------------------------------------------------------
(* SpecLifecycle: one AgentExecutor is handed up to MaxEpisodes goals of    *)
(* any kind, one after the other; the routine of a goal may return, raise   *)
(* or be interrupted                                                        *)

LifecycleVision == { VR(1, 0, 3, 0), VR(20, 24, 24, 12), VR(160, 160, 160, 160) }

LifecycleGoals ==
    { [goal_type |-> "find", target |-> "water", timeout_seconds |-> timeout] :
            timeout \in { 5, NoTimeout } }
    \cup { [goal_type |-> "explore", target |-> "none", timeout_seconds |-> timeout] :
            timeout \in { 5, NoTimeout } }
    \cup { [goal_type |-> goal_type, target |-> "none", timeout_seconds |-> 5] :
            goal_type \in { "missing", "gather" } }
    \cup { NavigateGoal("tree", "none", 0, timeout) : timeout \in { 5, NoTimeout } }
    \cup { NavigateGoal("none", "none", 0, 5) }
    \cup { NavigateGoal("none", direction, distance, 5) :
            direction \in Directions, distance \in { -4, 0, 5, 104 } }

LifecycleSubmit ==
    /\ episodes < MaxEpisodes
    /\ \E g \in LifecycleGoals : StartGoal(g)
    /\ UNCHANGED faults
    /\ NoObservation
    /\ Elsewhere
    /\ KeysUntouched

LifecycleRoute ==
    /\ Route
    /\ UNCHANGED faults
    /\ NoObservation
    /\ Elsewhere
    /\ KeysUntouched

LifecycleFindTick ==
    /\ \E vr \in LifecycleVision \cup {None}, focus_ok \in BOOLEAN,
          raise_at \in RaisePoints :
            /\ Fail(FaultCost(vr # None, focus_ok, raise_at))
            /\ FindIteration(vr, focus_ok, raise_at)
    /\ NoObservation
    /\ Elsewhere
    /\ KeysUntouched

LifecycleInterrupt ==
    /\ \E vr \in LifecycleVision \cup {None}, at \in InterruptPoints :
            FindInterrupt(vr, at)
    /\ Fail(1)
    /\ NoObservation
    /\ Elsewhere
    /\ KeysUntouched

LifecycleFindReturn ==
    /\ FindExhausted
    /\ UNCHANGED faults
    /\ NoObservation
    /\ Elsewhere
    /\ KeysUntouched

LifecycleExploreTick ==
    /\ \E focus_ok \in BOOLEAN, raise_at \in RaisePoints :
            /\ Fail(FaultCost(TRUE, focus_ok, raise_at))
            /\ ExploreIteration(focus_ok, raise_at)
    /\ NoObservation
    /\ Elsewhere
    /\ KeysUntouched

LifecycleExploreReturn ==
    /\ ExploreExhausted
    /\ UNCHANGED faults
    /\ NoObservation
    /\ Elsewhere
    /\ KeysUntouched

LifecycleNavigateTick ==
    /\ \E focus_ok \in BOOLEAN, raise_at \in RaisePoints :
            /\ Fail(FaultCost(TRUE, focus_ok, raise_at))
            /\ NavigateIteration(focus_ok, raise_at)
    /\ NoObservation
    /\ Elsewhere
    /\ KeysUntouched

LifecycleNavigateReturn ==
    /\ NavigateExhausted
    /\ UNCHANGED faults
    /\ NoObservation
    /\ Elsewhere
    /\ KeysUntouched

NextLifecycle ==
    \/ LifecycleSubmit
    \/ LifecycleRoute
    \/ LifecycleFindTick
    \/ LifecycleInterrupt
    \/ LifecycleFindReturn
    \/ LifecycleExploreTick
    \/ LifecycleExploreReturn
    \/ LifecycleNavigateTick
    \/ LifecycleNavigateReturn

SpecLifecycle == Init /\ [][NextLifecycle]_vars

-----------------------------------------------------------------------------
(* Claims *)

RunningMax == IF pc = "find" THEN max_coverage_seen ELSE max_coverage

FoundVerdict(seen) ==
    IF seen > 150 THEN "SUCCESS"
    ELSE IF seen > 10 THEN "PARTIAL_SUCCESS"
    ELSE "FAILURE"

(* C1: a find loop (AgentExecutor._execute_find_goal and the script's        *)
(* execute_find_mission) ends at the first tick whose coverage exceeds 0.15: *)
(* no earlier tick of a running loop exceeded it, that tick ends the loop    *)
(* with verdict SUCCESS at step index + 1 without dispatching an action, and *)
(* nothing is captured or dispatched once the loop has ended.                *)
C1_FoundEndsEpisode ==
    /\ [](pc \in {"find", "mission"} => RunningMax <= 150)
    /\ [][ (pc \in {"find", "mission"} /\ tick'.step = step /\ tick'.coverage > 150)
           => /\ pc' = "idle"
              /\ tick'.action = "none"
              /\ tick'.sent = "none"
              /\ IF pc = "find"
                 THEN /\ Len(execution_history') = Len(execution_history) + 1
                      /\ Verdict(Last(execution_history')) = "SUCCESS"
                      /\ Last(execution_history').steps_taken = step + 1
                 ELSE mission_verdict' = "SUCCESS" ]_vars
    /\ [][ (pc = "idle" /\ pc' = "idle") => tick' = tick ]_vars

(* C1 witness: coverage 0.16 at step 30 of a 100-step budget ended the goal *)
C1_Witness ==
    /\ pc = "idle"
    /\ goal = [goal_type |-> "find", target |-> "water", timeout_seconds |-> 200]
    /\ tick.loop = "find" /\ tick.step = 29 /\ tick.coverage = 160
    /\ execution_history = << ExecutionResult(TRUE, "Found", 30) >>

(* C2: once a find loop has ended, its verdict is SUCCESS when a tick        *)
(* exceeded 0.15, and otherwise (the step budget ran out) PARTIAL_SUCCESS    *)
(* when the maximum coverage seen exceeds 0.01 and FAILURE when it does not. *)
C2_ExhaustedVerdict ==
    /\ (pc = "idle" /\ goal.goal_type = "find" /\ execution_history # << >>)
         => Verdict(Last(execution_history)) = FoundVerdict(max_coverage_seen)
    /\ (pc = "idle" /\ mission_verdict \notin {"none", "ERROR"})
         => mission_verdict = FoundVerdict(max_coverage)

(* C2 witness: step budget 50, coverage never above 0.005, verdict FAILURE *)
C2_Witness ==
    /\ pc = "idle"
    /\ goal = [goal_type |-> "find", target |-> "water", timeout_seconds |-> 100]
    /\ tick.loop = "find" /\ tick.step = 49
    /\ max_coverage_seen = 1
    /\ Verdict(Last(execution_history)) = "FAILURE"

(* C3: a find episode performs at most min(timeout_seconds // 2, 200) loop   *)
(* iterations and an explore episode at most min(timeout_seconds // 2, 100), *)
(* and every step of a running episode either ends it or advances its loop  *)
(* index by one, whatever the captures and the actuator do.                  *)
C3_WithinBudget ==
    /\ [](pc = "find" => step <= Min(goal.timeout_seconds \div 2, 200))
    /\ [](pc = "explore" => step <= Min(goal.timeout_seconds \div 2, 100))
    /\ [](tick.loop = "find" => tick.step < Min(goal.timeout_seconds \div 2, 200))
    /\ [](tick.loop = "explore" => tick.step < Min(goal.timeout_seconds \div 2, 100))
    /\ [][ (pc \in {"find", "explore"}) => (pc' = "idle" \/ step' = step + 1) ]_vars

(* C3 witness: a find loop that used all 200 steps of a 402 s timeout, one  *)
(* of its ticks having failed                                               *)
C3_Witness ==
    /\ pc = "find"
    /\ goal.timeout_seconds = 402
    /\ step = 200
    /\ faults = 1

(* C4: in a find episode of the executor, once the maximum coverage seen is *)
(* above 0.08 every phase the loop computes is APPROACH, whatever the        *)
(* coverage of the tick.                                                     *)
C4_ApproachSticks ==
    (tick.loop = "find" /\ tick.phase # "none" /\ max_coverage_seen > 80)
        => (tick.phase = "APPROACH" /\ current_phase = "APPROACH")

(* C4 witness: coverage dropped to 0.02 after 0.09 was seen, phase APPROACH *)
C4_Witness ==
    /\ tick.loop = "find"
    /\ tick.step > 5
    /\ tick.coverage = 20
    /\ max_coverage_seen = 90
    /\ tick.phase = "APPROACH"

(* C5 as stated: determine_phase with coverage and max_coverage_seen both   *)
(* exactly 0.08 returns APPROACH.                                           *)
C5_BoundaryIsApproach ==
    (tick.loop = "unit" /\ tick.coverage = 80 /\ tick.phase_max = 80)
        => tick.phase = "APPROACH"

(* C5 amended: determine_phase with coverage and max_coverage_seen both     *)
(* exactly 0.08 returns NAVIGATE, at every step index.                      *)
C5_BoundaryIsNavigate ==
    (tick.loop = "unit" /\ tick.coverage = 80 /\ tick.phase_max = 80)
        => tick.phase = "NAVIGATE"

(* C5 witness: determine_phase was called at the boundary *)
C5_Witness ==
    /\ tick.loop = "unit"
    /\ tick.coverage = 80
    /\ tick.phase_max = 80
    /\ tick.step = 5
    /\ tick.phase = "NAVIGATE"

(* C6 as stated: in the executor's find loop for water, the action chosen   *)
(* in SEARCH phase at step index s + 24 equals the one chosen in SEARCH     *)
(* phase at step index s.                                                   *)
C6_SearchPeriod24 ==
    (mark # NoMark /\ goal.target = "water" /\ tick.loop = "find"
        /\ tick.phase = "SEARCH" /\ tick.step = mark.step + 24)
        => tick.action = mark.action

(* C7 as stated: a find episode fed the same vision results as the episode  *)
(* before it on the same executor computes the same phases and chooses the  *)
(* same actions, tick by tick.                                              *)
C7_EpisodesAgree ==
    episodes >= 2 =>
        \A i \in 1..Len(trace) : i <= Len(prev_trace) /\ trace[i] = prev_trace[i]

C9_CaptureFailureIsNoOp ==
    [][ (pc \in {"find", "mission"} /\ tick'.step = step /\ tick'.capture = "fail")
        => /\ tick'.action = "none"
           /\ tick'.sent = "none"
           /\ max_coverage_seen' = max_coverage_seen
           /\ max_coverage' = max_coverage
           /\ execution_history' = execution_history
           /\ mission_verdict' = mission_verdict
           /\ pc' = pc
           /\ step' = step + 1 ]_vars

(* C10 as stated: when focusing the target application fails, the           *)
(* controller still sends the key of the action.                            *)
C10_FocusFailureStillDispatches ==
    (tick.loop \in {"find", "explore"} /\ tick.focus = "fail"
        /\ tick.action \in ActionType \ {WAIT})
        => tick.sent = tick.action

(* C11: in the executor's find loop a key action whose dispatch raised is    *)
(* reported as failed without an exception leaving the actuator (a tick     *)
(* reported as done has sent its key), the tick is not counted in           *)
(* steps_taken, ends nothing and records nothing, the loop goes on with the *)
(* next step, and the verdict of the ended episode is the one the maximum   *)
(* coverage seen gives.                                                      *)
C11_DispatchFailureIsIneffective ==
    /\ []((tick.loop = "find" /\ tick.action \in ActionType \ {WAIT} /\ tick.ok)
            => tick.sent = tick.action)
    /\ [][ (pc = "find" /\ tick'.step = step /\ tick'.focus = "ok"
              /\ tick'.action \in ActionType /\ ~tick'.ok)
           => /\ pc' = "find"
              /\ step' = step + 1
              /\ steps_taken' = steps_taken
              /\ execution_history' = execution_history
              /\ goal_status' = goal_status
              /\ max_coverage_seen' = Max(max_coverage_seen, tick'.coverage) ]_vars
    /\ []((pc = "idle" /\ goal.goal_type = "find" /\ execution_history # << >>)
            => Verdict(Last(execution_history)) = FoundVerdict(max_coverage_seen))

(* C11 witness: the key press of the second tick raised; the loop is at the *)
(* third step and counts one step taken                                     *)
C11_Witness ==
    /\ pc = "find"
    /\ tick.loop = "find" /\ tick.step = 1
    /\ tick.focus = "ok" /\ tick.action = MOVE_FORWARD
    /\ tick.sent = "none" /\ ~tick.ok
    /\ step = 2
    /\ steps_taken = 1

(* C17: determine_phase returns SEARCH exactly when coverage < 0.005 and    *)
(* max_coverage_seen < 0.01 and the step index is below 80.                 *)
C17_SearchExactly ==
    tick.loop = "unit"
        => (tick.phase = "SEARCH"
              <=> (tick.coverage < 5 /\ tick.phase_max < 10 /\ tick.step < 80))

(* C17 witness: coverage and maximum 0.001 at the tenth tick give SEARCH *)
C17_Witness ==
    /\ tick.loop = "unit"
    /\ tick.coverage = 1
    /\ tick.phase_max = 1
    /\ tick.step = 9
    /\ tick.phase = "SEARCH"

(* C18: determine_phase returns APPROACH whenever coverage > 0.08 or        *)
(* max_coverage_seen > 0.08, at every step index, and NAVIGATE exactly when *)
(* neither the SEARCH test nor the APPROACH test holds.                     *)
C18_ApproachElseNavigate ==
    tick.loop = "unit"
        => LET search == tick.coverage < 5 /\ tick.phase_max < 10 /\ tick.step < 80
               high == tick.coverage > 80 \/ tick.phase_max > 80
           IN  /\ high => (tick.phase = "APPROACH" /\ ~search)
               /\ tick.phase = "NAVIGATE" <=> (~search /\ ~high)
               /\ tick.phase = "APPROACH" => high

(* C18 witness: low coverage at step 0 with a high maximum gives APPROACH *)
C18_Witness ==
    /\ tick.loop = "unit"
    /\ tick.coverage = 1
    /\ tick.step = 0
    /\ tick.phase_max = 90
    /\ tick.phase = "APPROACH"

(* C19 as stated: in APPROACH phase the action chosen by the planner in the *)
(* executor's find loop is move-forward, for every target.                  *)
C19_ApproachIsForward ==
    (tick.loop = "find" /\ tick.phase = "APPROACH") => tick.action = MOVE_FORWARD

(* C20 as stated: in NAVIGATE phase of a water search, when the center      *)
(* column's coverage is the maximum and the left or the right column ties   *)
(* with it, the action chosen is move-forward.                              *)
C20_TiesFavorCenter ==
    \A i \in 1..Len(trace) :
        (/\ goal.target = "water"
         /\ trace[i].phase = "NAVIGATE"
         /\ feed[i].center = Max3(feed[i].left, feed[i].center, feed[i].right)
         /\ (feed[i].left = feed[i].center \/ feed[i].right = feed[i].center))
            => trace[i].action = MOVE_FORWARD

(* C16 as stated: every coverage the detector reports for a frame, the      *)
(* total and each of the six regions, lies between 0 and 1.                 *)
C16_CoverageInUnitInterval ==
    report # NoReport
        => \A v \in { report.total_coverage, report.left, report.center,
                      report.right, report.top, report.middle, report.bottom } :
                v >= 0 /\ v <= 1000

(* C14 as stated: once the find loop has stopped, after an interrupt or     *)
(* not, no key the controller pressed is still down.                        *)
C14_NoKeyHeldAfterStop ==
    pc = "idle" => held = {}

(* C12 as stated: when the call of the decision service raises, times out   *)
(* or returns a bad status, decide propagates nothing and returns an action *)
(* of the Action vocabulary.                                                *)
C12_FallbackInVocabulary ==
    (decision.agent = "LLMMinecraftAgent"
        /\ decision.service \in { "raise", "timeout", "bad_status" })
        => /\ ~decision.propagated
           /\ decision.action_type \in
                { "move_forward", "move_backward", "strafe_left", "strafe_right",
                  "look_left", "look_right", "look_up", "look_down", "center_view",
                  "mine", "place", "jump", "wait" }

(* C13 as stated: the action type parsed from a response of the model is a  *)
(* known action or the safe default look_around.                            *)
C13_ParsedIsKnownOrDefault ==
    (decision.agent = "LLMMinecraftAgent" /\ decision.service = "ok")
        => decision.action_type \in KnownActions \cup { "look_around" }

(* C15 as stated: a script started without --ready or with --ready n exits  *)
(* with code 0 and has captured no screen, focused no window and sent no    *)
(* input.                                                                   *)
C15_NoEffectsUnlessReady ==
    (launch.script # "none" /\ launch.ready # "y")
        => /\ launch.stage = "exited"
           /\ launch.exit_code = 0
           /\ ~launch.capture
           /\ ~launch.focus
           /\ ~launch.input

(* C21 as stated: in NAVIGATE phase of a water search, while the left (or   *)
(* the right) column holds the maximum coverage and exceeds 0.01, the action *)
(* is a strafe toward that side when the step index mod 8 is below 2 and    *)
(* move-forward at the other six step indices of every eight; in every      *)
(* other NAVIGATE case the action is move-forward.                          *)
C21_NavigateBurstByStepIndex ==
    \A i \in 1..Len(trace) :
        (goal.target = "water" /\ trace[i].phase = "NAVIGATE")
            => LET vr == feed[i]
                   step_index == i - 1
                   max_region == Max3(vr.left, vr.center, vr.right)
                   burst == step_index % 8 < 2
               IN  IF vr.left = max_region /\ vr.left > 10
                   THEN trace[i].action = IF burst THEN MOVE_LEFT ELSE MOVE_FORWARD
                   ELSE IF vr.right = max_region /\ vr.right > 10
                   THEN trace[i].action = IF burst THEN MOVE_RIGHT ELSE MOVE_FORWARD
                   ELSE trace[i].action = MOVE_FORWARD

LookActions == { LOOK_LEFT, LOOK_RIGHT, LOOK_UP, LOOK_DOWN }

(* C22: while the phase stays SEARCH in the executor's find loop, no look   *)
(* action is chosen on four SEARCH ticks in a row, and every 24 SEARCH      *)
(* ticks in a row include a move-forward.                                   *)
C22_SweepNeverSpins ==
    \A i \in 1..Len(trace) :
        /\ (i + 3 <= Len(trace) /\ trace[i].action \in LookActions)
              => \E j \in (i + 1)..(i + 3) : trace[j].action # trace[i].action
        /\ (i + 23 <= Len(trace))
              => \E j \in i..(i + 23) : trace[j].action = MOVE_FORWARD

(* C22 witness: 26 SEARCH ticks in a row of a water search, one capture     *)
(* having failed in between, the latest three of them look-left             *)
C22_Witness ==
    /\ pc = "find"
    /\ goal.target = "water"
    /\ faults = 1
    /\ Len(trace) = 26
    /\ trace[24].action = LOOK_LEFT
    /\ trace[25].action = LOOK_LEFT
    /\ trace[26].action = LOOK_LEFT

(* C23: within an episode of the executor's find loop the phase never       *)
(* leaves APPROACH once entered, it goes back from NAVIGATE to SEARCH only  *)
(* at a step index below 80 with max_coverage_seen below 0.01, and it is    *)
(* never SEARCH at step index 80 or later nor once max_coverage_seen has    *)
(* reached 0.01.                                                            *)
C23_PhaseRegressesOnlyToSearch ==
    /\ []((tick.loop = "find" /\ tick.phase = "SEARCH")
            => (tick.step < 80 /\ max_coverage_seen < 10))
    /\ [][ (pc = "find" /\ pc' = "find" /\ tick'.phase # "none")
           => /\ current_phase' = tick'.phase
              /\ current_phase = "APPROACH" => current_phase' = "APPROACH"
              /\ (current_phase = "NAVIGATE" /\ current_phase' = "SEARCH")
                    => (step < 80 /\ max_coverage_seen' < 10) ]_vars
    /\ [][ (pc = "find" /\ pc' = "find" /\ tick'.phase = "none")
           => current_phase' = current_phase ]_vars

(* C23 witness: coverage 0.007 gave NAVIGATE, then coverage 0.001 gave      *)
(* SEARCH again, the maximum seen being 0.007                               *)
C23_Witness ==
    /\ pc = "find"
    /\ tick.loop = "find" /\ tick.step = 1
    /\ tick.coverage = 1
    /\ max_coverage_seen = 7
    /\ tick.phase = "SEARCH"
    /\ current_phase = "SEARCH"
    /\ trace = << [phase |-> "SEARCH", action |-> LOOK_LEFT] >>

(* The regions of the latest image, by the name the report gives them *)
RegionNames == { "total_coverage", "left", "center", "right", "top", "middle", "bottom" }

RegionRows(name) ==
    IF name = "top" THEN first_third(height(img))
    ELSE IF name = "middle" THEN second_third(height(img))
    ELSE IF name = "bottom" THEN last_third(height(img))
    ELSE 1..height(img)

RegionCols(name) ==
    IF name = "left" THEN first_third(width(img))
    ELSE IF name = "center" THEN second_third(width(img))
    ELSE IF name = "right" THEN last_third(width(img))
    ELSE 1..width(img)

RegionPixels(name) == Cardinality(RegionRows(name)) * Cardinality(RegionCols(name))

ReportRanges == IF report.feature = "water" THEN WATER_COLORS ELSE TREE_COLORS

(* The pixels of the region that match the i-th colour range *)
Matching(name, i) ==
    { p \in RegionRows(name) \X RegionCols(name) :
        in_range(img[p], ReportRanges[i][1], ReportRanges[i][2]) }

(* C24: the coverage the detector reports for the image and for each of its *)
(* regions that has pixels is the sum over the colour ranges of (pixels     *)
(* matching the range / pixels of the region), each quotient in             *)
(* thousandths; up to that rounding it is (number of pairs of a pixel and a *)
(* range it matches) / pixels, so a pixel matching k ranges counts k times; *)
(* and it is 0 when no pixel matches any range.                             *)
C24_CoverageIsSumOverRanges ==
    report # NoReport
        => \A name \in RegionNames :
              RegionPixels(name) > 0
                 => LET K == Len(ReportRanges)
                        pairs == { << p, i >> \in
                                     (RegionRows(name) \X RegionCols(name)) \X (1..K) :
                                        p \in Matching(name, i) }
                        sum[i \in 0..K] ==
                            IF i = 0 THEN 0
                            ELSE sum[i - 1]
                                   + (Cardinality(Matching(name, i)) * 1000)
                                         \div RegionPixels(name)
                    IN  /\ report[name] = sum[K]
                        /\ report[name] * RegionPixels(name) <= 1000 * Cardinality(pairs)
                        /\ 1000 * Cardinality(pairs) < (report[name] + K) * RegionPixels(name)
                        /\ (pairs = {}) => report[name] = 0

(* C24 witness: one pixel of a 3 x 3 image, in the left column and the top  *)
(* row, matches all four tree ranges: total 4 * 0.111, left and top 4 * 0.333 *)
C24_Witness ==
    /\ report.feature = "tree"
    /\ height(img) = 3 /\ width(img) = 3
    /\ img[<< 1, 1 >>] = RGB(80, 120, 40)
    /\ report.total_coverage = 444
    /\ report.left = 1332
    /\ report.top = 1332
    /\ report.center = 0

(* C25 as stated: for every image, also one narrower or shorter than 3      *)
(* pixels, the detector returns a coverage (a number, not nan) for each of  *)
(* the six regions.                                                         *)
C25_ZeroAreaRegionsHaveCoverage ==
    report # NoReport
        => \A name \in RegionNames \ { "total_coverage" } :
              report[name] # NaN /\ report[name] >= 0

(* The latest n entries of a log, oldest first *)
Latest(log, n) ==
    LET m == Min(n, Len(log))
    IN  [ i \in 1..m |-> log[Len(log) - m + i] ]

(* C26: after any sequence of act calls RuleBasedAgent.action_history holds *)
(* at most 100 entries, LLMMinecraftAgent.action_history at most 50 and     *)
(* VisionLLMAgent.last_actions at most 10, and each is the latest actions   *)
(* whose act call completed, in the order they were executed.               *)
C26_HistoriesAreBounded ==
    /\ Len(rule_agent.action_history) <= 100
    /\ Len(action_history) <= 50
    /\ Len(last_actions) <= 10
    /\ decision.agent = "RuleBasedAgent"
          => rule_agent.action_history = Latest(trace, 100)
    /\ decision.agent = "LLMMinecraftAgent" => action_history = Latest(trace, 50)
    /\ decision.agent = "VisionLLMAgent" => last_actions = Latest(trace, 10)

(* C26 witness: 101 act calls of the RuleBasedAgent completed and one       *)
(* raised; the history holds the latest 100 actions, the oldest one dropped *)
C26_Witness ==
    /\ decision.agent = "RuleBasedAgent"
    /\ clock = 102 /\ faults = 1
    /\ Len(trace) = 101
    /\ Len(rule_agent.action_history) = 100
    /\ rule_agent.action_history[1] = trace[2]
    /\ rule_agent.action_history[100].timestamp = 101

(* C27 as stated: a call of decide that finds wood_gathered at target_wood  *)
(* or above leaves the agent outside the wood-gathering phase.              *)
C27_LeavesWoodGathering ==
    [][ rule_agent.wood_gathered >= 150
          => rule_agent'.building_phase # "gathering_wood" ]_vars

(* The coverages of the first n vision results of the feed, and 0 *)
SeenSoFar(n) ==
    { feed[i].total_coverage : i \in { j \in 1..n : feed[j] # None } } \cup { 0 }

Greatest(S) == CHOOSE x \in S : \A y \in S : y <= x

(* C28: within a find episode max_coverage_seen is 0 before the first tick  *)
(* and after every tick the greatest coverage captured so far in the        *)
(* episode (so it never decreases, and a failed capture leaves it), also    *)
(* once the episode has ended; every phase computation receives that        *)
(* maximum, which is at least the coverage of its tick.                     *)
C28_MaxSeenIsRunningMax ==
    /\ pc = "find" => max_coverage_seen = Greatest(SeenSoFar(step))
    /\ (pc = "idle" /\ episodes > 0)
          => max_coverage_seen = Greatest(SeenSoFar(tick.step + 1))
    /\ (tick.loop = "find" /\ tick.phase # "none")
          => /\ tick.phase_max = Greatest(SeenSoFar(tick.step + 1))
             /\ tick.phase_max >= tick.coverage

(* C28 witness: coverages 0.09, a failed capture, then 0.02 in the second   *)
(* episode of the executor: the maximum is 0.09 and the phase of the third  *)
(* tick was computed from it                                                *)
C28_Witness ==
    /\ pc = "find"
    /\ episodes = 2
    /\ step = 3
    /\ feed = << VR(90, 0, 270, 0), None, VR(20, 24, 24, 12) >>
    /\ max_coverage_seen = 90
    /\ tick.coverage = 20
    /\ tick.phase_max = 90

(* C29: execute_goal completes the lifecycle of every goal it is handed,    *)
(* whether the goal's routine returns, raises or is interrupted: while the  *)
(* goal runs it is current_goal with status in_progress; when execute_goal  *)
(* returns, the goal's status is completed exactly when the returned result *)
(* is a success and failed otherwise, current_goal is None again, and just  *)
(* one entry, the returned result, was appended to execution_history (so   *)
(* the history holds one entry per goal handed in and finished).            *)
C29_GoalLifecycleCompletes ==
    /\ [](pc # "idle" => /\ goal_status = "in_progress"
                         /\ current_goal = goal
                         /\ Len(execution_history) = episodes - 1)
    /\ []((pc = "idle" /\ episodes > 0)
            => /\ Len(execution_history) = episodes
               /\ current_goal = NoGoal
               /\ goal_status
                    = (IF Last(execution_history).success THEN "completed"
                                                            ELSE "failed"))
    /\ [][ (pc # "idle" /\ pc' = "idle")
            => /\ Len(execution_history') = Len(execution_history) + 1
               /\ SubSeq(execution_history', 1, Len(execution_history))
                    = execution_history
               /\ goal' = goal ]_vars

(* C29 witness: the executor's second goal was a FindGoal whose             *)
(* timeout_seconds is None, so the routine raised; the first was completed; *)
(* the history holds a success and then the failure, and the goal is failed *)
C29_Witness ==
    /\ pc = "idle"
    /\ episodes = 2
    /\ goal = [goal_type |-> "find", target |-> "water", timeout_seconds |-> NoTimeout]
    /\ goal_status = "failed"
    /\ current_goal = NoGoal
    /\ Len(execution_history) = 2
    /\ execution_history[1].success
    /\ execution_history[2] = ExecutionResult(FALSE, "Goal execution failed", 0)

(* C30 as stated: the steps_taken of the result execute_goal returns is at  *)
(* most the number of iterations the goal's loop ran: at most the step      *)
(* budget for a find or an explore goal, and at most min(distance // 2, 50) *)
(* for a NavigateGoal with a direction.                                     *)
C30_StepsTakenWithinIterations ==
    [][ (pc \in { "find", "explore", "navigate" } /\ pc' = "idle")
          => LET reported == Last(execution_history').steps_taken
                 distance == IF goal.distance = 0 THEN 20 ELSE goal.distance
             IN  /\ reported <= IF tick'.step = step THEN step + 1 ELSE step
                 /\ pc = "find"
                      => reported <= Min(goal.timeout_seconds \div 2, 200)
                 /\ pc = "explore"
                      => reported <= Min(goal.timeout_seconds \div 2, 100)
                 /\ pc = "navigate"
                      => reported <= Min(distance \div 2, 50) ]_vars

====
